---- MODULE Spec2Model ----
(***************************************************************************)
(* A model of pdu-codec: PduBuilder (src/src/PduBuilder.ts) and PduParser  *)
(* (src/src/PduParser.ts, the class at lines 500-922).                     *)
(*                                                                         *)
(* Spec       : one PduBuilder instance driven by any sequence of calls.   *)
(* ParserSpec : one PduParser instance driven by any sequence of calls.    *)
(***************************************************************************)
EXTENDS Integers, Sequences, FiniteSets, TLC

VARIABLES
  \* ---- PduBuilder instance
  buf,        \* bytes held by this.buf; Len(buf) is the greatest offset a write has reached
  offset,     \* this.buf.offset, the write cursor
  _length,    \* this._length, the cached high-water mark
  marks,      \* this.marks
  endian,     \* this.endian
  limit,      \* this.buf.limit
  op,         \* the last public call made on the builder
  arg,        \* its first argument, where it has one
  err,        \* the error that call threw, or None
  ret,        \* the value that call returned (hex text of build, number of remaining)
  bp,         \* backpatch history: the logical length at the last loadMark
  \* ---- PduParser instance
  input,      \* bytes wrapped by this.buf
  poffset,    \* this.buf.offset, the read cursor
  value,      \* this.value, the field-value record
  pendian,    \* this.endian
  pop,        \* the last public call made on the parser
  perr,       \* the error that call threw, or None
  rep,        \* the activation of repeat(): conditions, i, pc, invocation count
  pcall,      \* the arguments of the last primitive read and the data it decoded
  \* ---- a builder and a parser used together
  sent        \* the field written for a round trip: its descriptor and its value

bvars == <<buf, offset, _length, marks, endian, limit, op, arg, err, ret, bp>>
pvars == <<input, poffset, value, pendian, pop, perr, rep, pcall>>
vars  == <<bvars, pvars, sent>>

----------------------------------------------------------------------------
\* Bounds of the model

MaxLen    == 3   \* writes are explored while the cursor stays within MaxLen bytes
MaxValues == 2   \* values passed to one number() call
MaxText   == 1   \* code points of a text passed to string()

----------------------------------------------------------------------------
\* Shared helpers

None      == "none"
Undefined == -1          \* the value of a missing property (offsets are never negative)
BIG       == "BIG"
LITTLE    == "LITTLE"

Max(a, b) == IF a >= b THEN a ELSE b
Min(a, b) == IF a <= b THEN a ELSE b

BitLength == {8, 16, 32}
initialSize == 20

\* A JavaScript number holding an integer, kept as two base-65536 digits so that
\* values around 2^32 stay exact: the number is hi * 65536 + lo, 0 <= lo < 65536.
N(n) == [hi |-> n \div 65536, lo |-> n % 65536]
Lt(a, b) == a.hi < b.hi \/ (a.hi = b.hi /\ a.lo < b.lo)
Gt(a, b) == Lt(b, a)

\* Math.pow(2, bits || maxBits) - 1, with maxBits = 32
getMaxValue(bits) ==
  LET b == IF bits # 0 THEN bits ELSE 32
  IN  [hi |-> IF b > 16 THEN 2 ^ (b - 16) - 1 ELSE 0,
       lo |-> IF b > 16 THEN 65535 ELSE 2 ^ b - 1]

\* Mutant of NumberBytes: the bytes are written most significant first in either order
NumberBytesBigOnly(v, bits, e) ==
  LET n    == bits \div 8
      be32 == <<(v.hi \div 256) % 256, v.hi % 256, v.lo \div 256, v.lo % 256>>
  IN  [i \in 1..n |-> be32[4 - n + i]]

\* ByteBuffer.writeUint8/16/32: the bytes of v in the byte order e
NumberBytes(v, bits, e) ==
  LET n    == bits \div 8
      be32 == <<(v.hi \div 256) % 256, v.hi % 256, v.lo \div 256, v.lo % 256>>
      be   == [i \in 1..n |-> be32[4 - n + i]]
  IN  IF e = LITTLE THEN [i \in 1..n |-> be[n + 1 - i]] ELSE be

\* Mutant of bufWrite: the write discards the bytes beyond its end
bufWriteTruncating(b, off, bs) == SubSeq(b, 1, off) \o bs

\* Mutant of bufWrite: the bytes are put at the start of the store, not at the cursor
bufWriteAtStart(b, off, bs) ==
  [i \in 1..Max(Len(b), off + Len(bs)) |->
     IF i <= Len(bs) THEN bs[i] ELSE IF i <= Len(b) THEN b[i] ELSE 0]

\* A relative ByteBuffer write of bs at offset off: overwrites in place, grows the store
bufWrite(b, off, bs) ==
  [i \in 1..Max(Len(b), off + Len(bs)) |->
     IF i > off /\ i <= off + Len(bs) THEN bs[i - off] ELSE b[i]]

----------------------------------------------------------------------------
\* PduBuilder: inputs explored

MarkNames == {"NAME"}
Values    == { N(-1), N(97), N(24929), [hi |-> 65536, lo |-> 0] }   \* -1, 0x61, 0x6161, 2^32
CodePoints == {0, 97}                          \* NUL, 'a'
Default   == -1                                \* an option the caller leaves out
HexTexts  == { <<>>, <<"6", "1">>, <<"6">>, <<"g", "1">>, <<"0", "0", "6", "1">> }

RECURSIVE SeqsUpTo(_, _)
SeqsUpTo(S, n) ==
  IF n = 0 THEN { <<>> }
  ELSE LET shorter == SeqsUpTo(S, n - 1)
       IN  shorter \cup { Append(q, x) : q \in shorter, x \in S }

----------------------------------------------------------------------------
\* PduBuilder: the Numeric Codec and the text encodings

Written(e, b, off) == [err |-> e, buf |-> b, offset |-> off]

\* Mutant of writeNumber: the value is tested after its bytes were written
writeNumberLateCheck(b, off, v, bits) ==
  IF bits \notin BitLength THEN Written("InvalidBitLength", b, off)
  ELSE IF Lt(v, N(0)) \/ Gt(v, getMaxValue(bits))
    THEN Written("RangeError", bufWrite(b, off, NumberBytes(v, bits, endian)), off + (bits \div 8))
  ELSE Written(None, bufWrite(b, off, NumberBytes(v, bits, endian)), off + (bits \div 8))

\* writeNumber(value, bits): refuses a value outside 0 .. getMaxValue(bits), else
\* writes its bytes at the cursor
writeNumber(b, off, v, bits) ==
  IF Lt(v, N(0)) \/ Gt(v, getMaxValue(bits)) THEN Written("RangeError", b, off)
  ELSE IF bits \notin BitLength THEN Written("InvalidBitLength", b, off)
  ELSE Written(None, bufWrite(b, off, NumberBytes(v, bits, endian)), off + (bits \div 8))

\* Mutant of numberLoop: every value is range-checked before the first is written
RECURSIVE numberLoopChecksFirst(_, _, _, _)
numberLoopChecksFirst(b, off, bits, values) ==
  IF \E i \in 1..Len(values) : Lt(values[i], N(0)) \/ Gt(values[i], getMaxValue(bits))
  THEN Written("RangeError", b, off)
  ELSE IF values = <<>> THEN Written(None, b, off)
  ELSE LET r == writeNumber(b, off, Head(values), bits)
       IN  numberLoopChecksFirst(r.buf, r.offset, bits, Tail(values))

RECURSIVE numberLoop(_, _, _, _)
numberLoop(b, off, bits, values) ==
  IF values = <<>> THEN Written(None, b, off)
  ELSE LET r == writeNumber(b, off, Head(values), bits)
       IN  IF r.err # None THEN r
           ELSE numberLoop(r.buf, r.offset, bits, Tail(values))

\* The UTF-8 bytes of one code point
UTF8(cp) ==
  IF cp < 128 THEN <<cp>>
  ELSE IF cp < 2048 THEN <<192 + (cp \div 64), 128 + (cp % 64)>>
  ELSE IF cp < 65536 THEN
    <<224 + (cp \div 4096), 128 + ((cp \div 64) % 64), 128 + (cp % 64)>>
  ELSE
    <<240 + (cp \div 262144), 128 + ((cp \div 4096) % 64),
      128 + ((cp \div 64) % 64), 128 + (cp % 64)>>

RECURSIVE writeUTF8String(_)
writeUTF8String(str) ==
  IF str = <<>> THEN <<>> ELSE UTF8(Head(str)) \o writeUTF8String(Tail(str))

\* ByteBuffer.writeCString: refuses a text holding NUL, else UTF-8 followed by a zero byte
writeCString(str) ==
  IF \E i \in 1..Len(str) : str[i] = 0 THEN [err |-> "NullCharError", bytes |-> <<>>]
  ELSE [err |-> None, bytes |-> Append(writeUTF8String(str), 0)]

HexDigits == <<"0", "1", "2", "3", "4", "5", "6", "7", "8", "9", "a", "b", "c", "d", "e", "f">>
UpperHex  == <<"0", "1", "2", "3", "4", "5", "6", "7", "8", "9", "A", "B", "C", "D", "E", "F">>

IsHexDigit(c) == \E d \in 1..16 : HexDigits[d] = c \/ UpperHex[d] = c
HexVal(c) == (CHOOSE d \in 1..16 : HexDigits[d] = c \/ UpperHex[d] = c) - 1

\* Mutant of parseHex: text of odd length is decoded without its last digit
parseHexLenient(hex) ==
  IF \E i \in 1..Len(hex) : ~IsHexDigit(hex[i]) THEN [err |-> "InvalidHexError", bytes |-> <<>>]
  ELSE [err |-> None,
        bytes |-> [i \in 1..(Len(hex) \div 2) |-> 16 * HexVal(hex[2 * i - 1]) + HexVal(hex[2 * i])]]

\* utils.parseHex: every character a hex digit, an even number of them
parseHex(hex) ==
  IF \E i \in 1..Len(hex) : ~IsHexDigit(hex[i]) THEN [err |-> "InvalidHexError", bytes |-> <<>>]
  ELSE IF Len(hex) % 2 # 0 THEN [err |-> "InvalidHexError", bytes |-> <<>>]
  ELSE [err |-> None,
        bytes |-> [i \in 1..(Len(hex) \div 2) |-> 16 * HexVal(hex[2 * i - 1]) + HexVal(hex[2 * i])]]

\* ByteBuffer.toHex: two lowercase digits per byte
RECURSIVE toHex(_)
toHex(bs) ==
  IF bs = <<>> THEN <<>>
  ELSE <<HexDigits[(Head(bs) \div 16) + 1], HexDigits[(Head(bs) % 16) + 1]>> \o toHex(Tail(bs))

\* Mutants of length: the getter returns the cached field without refreshing it;
\* the getter returns the position of the last write
lengthCached == _length
lengthIsOffset == offset

\* get length(): the value the getter returns; the getter also stores it in _length
length == Max(_length, offset)


----------------------------------------------------------------------------
\* PduBuilder: the public operations

This  == "this"                                \* a chainable call returns the builder
NoBp  == [phase |-> "none", tail |-> 0]

\* The backpatch history after a write that left the cursor at off
bpAfterWrite(e, off) ==
  IF e = None /\ bp.phase \in {"loaded", "patched"} /\ off > offset /\ off <= bp.tail
  THEN [phase |-> "patched", tail |-> bp.tail]
  ELSE NoBp

bpKeep == IF bp.phase = "ended" THEN NoBp ELSE bp

Outcome(name, a, e, r) ==
  /\ op' = name
  /\ arg' = a
  /\ err' = e
  /\ ret' = IF e = None THEN r ELSE None

\* Mutant of setOffset: the cursor is moved without the length being refreshed first
setOffsetStale(pos) ==
  IF pos > length THEN [err |-> "PositionError", offset |-> offset, _length |-> _length]
  ELSE [err |-> None, offset |-> pos, _length |-> _length]

\* Mutant of setOffset: the position is not checked against the length
setOffsetUnchecked(pos) == [err |-> None, offset |-> pos, _length |-> length]

\* set offset(pos): reads this.length first, refuses a position beyond it
setOffset(pos) ==
  IF pos > length THEN [err |-> "PositionError", offset |-> offset, _length |-> length]
  ELSE [err |-> None, offset |-> pos, _length |-> length]

\* Mutant of string: the length prefix holds the count of characters of the text
stringCountsCharacters(str, lengthBits, minLength, maxLength, nullTerminate) ==
  LET maxLen    == IF maxLength = Default THEN getMaxValue(lengthBits) ELSE N(maxLength)
      strBuf    == IF nullTerminate THEN writeCString(str)
                   ELSE [err |-> None, bytes |-> writeUTF8String(str)]
      strLength == Len(strBuf.bytes)
  IN  IF minLength < 0 \/ Gt(maxLen, getMaxValue(lengthBits)) \/ Lt(maxLen, N(minLength))
        THEN Written("InvalidMinMax", buf, offset)
      ELSE IF strBuf.err # None
        THEN Written(strBuf.err, buf, offset)
      ELSE IF strLength < minLength \/ Gt(N(strLength), maxLen)
        THEN Written("LengthError", buf, offset)
      ELSE LET w == IF lengthBits # 0 THEN writeNumber(buf, offset, N(Len(str)), lengthBits)
                    ELSE Written(None, buf, offset)
           IN  IF w.err # None THEN w
               ELSE Written(None, bufWrite(w.buf, w.offset, strBuf.bytes), w.offset + strLength)

\* string(str, {lengthBits, minLength, maxLength, nullTerminate}); maxLength left
\* out (Default) is getMaxValue(lengthBits)
string(str, lengthBits, minLength, maxLength, nullTerminate) ==
  LET maxLen    == IF maxLength = Default THEN getMaxValue(lengthBits) ELSE N(maxLength)
      strBuf    == IF nullTerminate THEN writeCString(str)
                   ELSE [err |-> None, bytes |-> writeUTF8String(str)]
      strLength == Len(strBuf.bytes)
  IN  IF minLength < 0 \/ Gt(maxLen, getMaxValue(lengthBits)) \/ Lt(maxLen, N(minLength))
        THEN Written("InvalidMinMax", buf, offset)
      ELSE IF strBuf.err # None
        THEN Written(strBuf.err, buf, offset)
      ELSE IF strLength < minLength \/ Gt(N(strLength), maxLen)
        THEN Written("LengthError", buf, offset)
      ELSE LET w == IF lengthBits # 0 THEN writeNumber(buf, offset, N(strLength), lengthBits)
                    ELSE Written(None, buf, offset)
           IN  IF w.err # None THEN w
               ELSE Written(None, bufWrite(w.buf, w.offset, strBuf.bytes), w.offset + strLength)

\* Mutant of hex: the length is held against the bounds only when a prefix is written
hexValidatesWithPrefixOnly(data, isText, lengthBits, minLength, maxLength) ==
  LET maxLen == IF maxLength = Default THEN getMaxValue(lengthBits) ELSE N(maxLength)
      hexBuf == IF isText THEN parseHex(data) ELSE [err |-> None, bytes |-> data]
      n      == Len(hexBuf.bytes)
  IN  IF hexBuf.err # None
        THEN Written(hexBuf.err, buf, offset)
      ELSE IF lengthBits # 0 /\ (n < minLength \/ Gt(N(n), maxLen))
        THEN Written("LengthError", buf, offset)
      ELSE LET w == IF lengthBits # 0 THEN writeNumber(buf, offset, N(n), lengthBits)
                    ELSE Written(None, buf, offset)
           IN  IF w.err # None THEN w
               ELSE Written(None, bufWrite(w.buf, w.offset, hexBuf.bytes), w.offset + n)

\* hex(hex, {lengthBits, minLength, maxLength}) for hex text (isText) or a Buffer
hex(data, isText, lengthBits, minLength, maxLength) ==
  LET maxLen == IF maxLength = Default THEN getMaxValue(lengthBits) ELSE N(maxLength)
      hexBuf == IF isText THEN parseHex(data) ELSE [err |-> None, bytes |-> data]
      n      == Len(hexBuf.bytes)
  IN  IF hexBuf.err # None
        THEN Written(hexBuf.err, buf, offset)
      ELSE IF n < minLength \/ Gt(N(n), maxLen)
        THEN Written("LengthError", buf, offset)
      ELSE LET w == IF lengthBits # 0 THEN writeNumber(buf, offset, N(n), lengthBits)
                    ELSE Written(None, buf, offset)
           IN  IF w.err # None THEN w
               ELSE Written(None, bufWrite(w.buf, w.offset, hexBuf.bytes), w.offset + n)

\* Applies the outcome of a write operation to the instance
Write(name, a, r) ==
  /\ r.offset <= MaxLen
  /\ buf' = r.buf
  /\ offset' = r.offset
  /\ Outcome(name, a, r.err, This)
  /\ bp' = bpAfterWrite(r.err, r.offset)
  /\ UNCHANGED <<_length, marks, endian, limit>>

\* number(bits, ...values), and uint8 / uint16 / uint32 which delegate to it
Number(bits, values) ==
  Write("number", None, numberLoop(buf, offset, bits, values))

String(str, lengthBits, minLength, maxLength, nullTerminate) ==
  Write("string", None, string(str, lengthBits, minLength, maxLength, nullTerminate))

Hex(data, isText, lengthBits, minLength, maxLength) ==
  Write("hex", None, hex(data, isText, lengthBits, minLength, maxLength))

\* Mutant of SaveMark: the mark is taken at the end of the data, not at the cursor
SaveMarkAtEnd(id) ==
  /\ marks' = [marks EXCEPT ![id] = length]
  /\ Outcome("saveMark", id, None, This)
  /\ bp' = bpKeep
  /\ UNCHANGED <<buf, offset, _length, endian, limit>>

SaveMark(id) ==
  /\ marks' = [marks EXCEPT ![id] = offset]
  /\ Outcome("saveMark", id, None, This)
  /\ bp' = bpKeep
  /\ UNCHANGED <<buf, offset, _length, endian, limit>>

\* Mutant of LoadMark: the mark is tested with !offset, so a mark at 0 counts as missing
LoadMarkFalsy(id) ==
  IF marks[id] = Undefined \/ marks[id] = 0
  THEN /\ Outcome("loadMark", id, "MissingMarkError", This)
       /\ bp' = NoBp
       /\ UNCHANGED <<buf, offset, _length, marks, endian, limit>>
  ELSE LET r == setOffset(marks[id])
       IN  /\ offset' = r.offset
           /\ _length' = r._length
           /\ Outcome("loadMark", id, r.err, This)
           /\ bp' = IF r.err = None THEN [phase |-> "loaded", tail |-> length] ELSE NoBp
           /\ UNCHANGED <<buf, marks, endian, limit>>

LoadMark(id) ==
  IF marks[id] = Undefined
  THEN /\ Outcome("loadMark", id, "MissingMarkError", This)
       /\ bp' = NoBp
       /\ UNCHANGED <<buf, offset, _length, marks, endian, limit>>
  ELSE LET r == setOffset(marks[id])
       IN  /\ offset' = r.offset
           /\ _length' = r._length
           /\ Outcome("loadMark", id, r.err, This)
           /\ bp' = IF r.err = None THEN [phase |-> "loaded", tail |-> length] ELSE NoBp
           /\ UNCHANGED <<buf, marks, endian, limit>>

\* builder.offset = pos
SetOffset(pos) ==
  LET r == setOffset(pos)
  IN  /\ offset' = r.offset
      /\ _length' = r._length
      /\ Outcome("setOffset", pos, r.err, None)
      /\ bp' = NoBp
      /\ UNCHANGED <<buf, marks, endian, limit>>

End ==
  LET r == setOffset(length)
  IN  /\ offset' = r.offset
      /\ _length' = r._length
      /\ Outcome("end", None, r.err, This)
      /\ bp' = IF r.err = None /\ bp.phase = "patched"
               THEN [phase |-> "ended", tail |-> bp.tail] ELSE NoBp
      /\ UNCHANGED <<buf, marks, endian, limit>>

Remaining ==
  /\ _length' = length
  /\ Outcome("remaining", None, None, limit - length)
  /\ bp' = bpKeep
  /\ UNCHANGED <<buf, offset, marks, endian, limit>>

\* Mutant of Build: the output ends at the cursor
BuildToCursor ==
  /\ _length' = length
  /\ Outcome("build", None, None, toHex(SubSeq(buf, 1, offset)))
  /\ bp' = bpKeep
  /\ UNCHANGED <<buf, offset, marks, endian, limit>>

Build ==
  /\ _length' = length
  /\ Outcome("build", None, None, toHex(SubSeq(buf, 1, length)))
  /\ bp' = bpKeep
  /\ UNCHANGED <<buf, offset, marks, endian, limit>>

----------------------------------------------------------------------------
\* PduParser: inputs explored

MaxInput   == 4                       \* bytes of the parsed input
MaxTimes   == 2                       \* largest count given in a repeat condition
InputBytes == {0, 1, 2, 3, 4}
FieldNames == {"a", "b"}
EmptyValue == [k \in FieldNames |-> <<>>]   \* {}: no key set; a set key holds <<v>>

\* The conditions objects passed to repeat(); Undefined is a condition left out,
\* and repeat(true, ...) is the object with every condition left out
Conditions ==
  [times : {Undefined}, minTimes : {Undefined}, maxTimes : {Undefined}]
    \cup [times : 0..MaxTimes, minTimes : {Undefined}, maxTimes : {Undefined}]
    \cup [times : {Undefined}, minTimes : 0..MaxTimes, maxTimes : {Undefined}]
    \cup [times : {Undefined}, minTimes : {Undefined}, maxTimes : 0..MaxTimes]
    \cup [times : {MaxTimes}, minTimes : {Undefined}, maxTimes : {1}]
    \cup [times : {Undefined}, minTimes : {MaxTimes}, maxTimes : {1}]
    \cup [times : {MaxTimes}, minTimes : {MaxTimes}, maxTimes : {Undefined}]

----------------------------------------------------------------------------
\* PduParser: primitive reads

\* Mutant of BytesNumber: the top byte of a uint32 is shifted into the sign bit
BytesNumberSigned(bs, e) ==
  LET n  == Len(bs)
      be == IF e = LITTLE THEN [i \in 1..n |-> bs[n + 1 - i]] ELSE bs
  IN  IF n = 1 THEN [hi |-> 0, lo |-> be[1]]
      ELSE IF n = 2 THEN [hi |-> 0, lo |-> 256 * be[1] + be[2]]
      ELSE [hi |-> IF be[1] >= 128 THEN 256 * be[1] + be[2] - 65536 ELSE 256 * be[1] + be[2],
            lo |-> 256 * be[3] + be[4]]

\* ByteBuffer.readUint8/16/32 in the byte order e
BytesNumber(bs, e) ==
  LET n  == Len(bs)
      be == IF e = LITTLE THEN [i \in 1..n |-> bs[n + 1 - i]] ELSE bs
  IN  IF n = 1 THEN [hi |-> 0, lo |-> be[1]]
      ELSE IF n = 2 THEN [hi |-> 0, lo |-> 256 * be[1] + be[2]]
      ELSE [hi |-> 256 * be[1] + be[2], lo |-> 256 * be[3] + be[4]]

\* Mutant of readNumber: the buffer is wrapped with noAssert, so a read past the
\* end is not refused and moves the cursor beyond the input
readNumberNoAssert(off, bits) ==
  IF bits \notin BitLength THEN [err |-> "OutOfData", offset |-> off, v |-> N(0)]
  ELSE IF off + (bits \div 8) > Len(input)
  THEN [err |-> None, offset |-> off + (bits \div 8), v |-> N(0)]
  ELSE [err |-> None, offset |-> off + (bits \div 8),
        v |-> BytesNumber(SubSeq(input, off + 1, off + (bits \div 8)), pendian)]

\* readNumber(bits) with the cursor at off: fails when fewer than bits/8 bytes remain
readNumber(off, bits) ==
  IF bits \notin BitLength \/ off + (bits \div 8) > Len(input)
  THEN [err |-> "OutOfData", offset |-> off, v |-> N(0)]
  ELSE [err |-> None, offset |-> off + (bits \div 8),
        v |-> BytesNumber(SubSeq(input, off + 1, off + (bits \div 8)), pendian)]

\* parse(reader, data) for a reader given as a property name: Object.assign(value, {name: data})
parse(val, name, data) == [val EXCEPT ![name] = <<data>>]

Read(e, off, val) == [err |-> e, offset |-> off, value |-> val]

\* number(bits, propertyName), and uint8 / uint16 / uint32
number(off, val, bits, name) ==
  LET r == readNumber(off, bits)
  IN  IF r.err # None THEN Read(r.err, off, val)
      ELSE Read(None, r.offset, parse(val, name, r.v))

----------------------------------------------------------------------------
\* PduParser: repeat(conditions, sequence)

\* Mutant of Sequence: an invocation that throws leaves cursor and record as it found them
SequenceRolledBack(off, val) ==
  LET t == readNumber(off, 8)
  IN  IF t.err # None THEN [ret |-> "throw", offset |-> off, value |-> val]
      ELSE IF t.v = N(1) THEN
        LET r == number(t.offset, val, 16, "a")
        IN  IF r.err # None THEN [ret |-> "throw", offset |-> off, value |-> val]
            ELSE [ret |-> "parser", offset |-> r.offset, value |-> r.value]
      ELSE IF t.v = N(2) THEN
        LET r == number(t.offset, val, 8, "b")
        IN  IF r.err # None THEN [ret |-> "throw", offset |-> off, value |-> val]
            ELSE [ret |-> "parser", offset |-> r.offset, value |-> r.value]
      ELSE IF t.v = N(3) THEN
        LET r1 == number(t.offset, val, 8, "a")
            r2 == number(r1.offset, r1.value, 8, "b")
        IN  IF r1.err # None \/ r2.err # None
            THEN [ret |-> "throw", offset |-> off, value |-> val]
            ELSE [ret |-> "parser", offset |-> r2.offset, value |-> r2.value]
      ELSE IF t.v = N(0) THEN [ret |-> "null", offset |-> t.offset, value |-> val]
      ELSE [ret |-> "throw", offset |-> off, value |-> val]

\* The sequence the caller passes: it reads a type byte and branches on it, as the
\* repeat tests do: type 1 reads a uint16 into "a", type 2 reads a uint8 into "b",
\* type 3 chains a uint8 into "a" and a uint8 into "b", type 0 makes the sequence
\* return null, any other type makes the callback throw.
Sequence(off, val) ==
  LET t == readNumber(off, 8)
  IN  IF t.err # None THEN [ret |-> "throw", offset |-> off, value |-> val]
      ELSE IF t.v = N(1) THEN
        LET r == number(t.offset, val, 16, "a")
        IN  [ret |-> IF r.err # None THEN "throw" ELSE "parser",
             offset |-> r.offset, value |-> r.value]
      ELSE IF t.v = N(2) THEN
        LET r == number(t.offset, val, 8, "b")
        IN  [ret |-> IF r.err # None THEN "throw" ELSE "parser",
             offset |-> r.offset, value |-> r.value]
      ELSE IF t.v = N(3) THEN
        LET r1 == number(t.offset, val, 8, "a")
            r2 == number(r1.offset, r1.value, 8, "b")
        IN  [ret |-> IF r1.err # None \/ r2.err # None THEN "throw" ELSE "parser",
             offset |-> r2.offset, value |-> r2.value]
      ELSE IF t.v = N(0) THEN [ret |-> "null", offset |-> t.offset, value |-> val]
      ELSE [ret |-> "throw", offset |-> t.offset, value |-> val]

NoCall == [op |-> "new"]

NoRepeat == [pc |-> "idle", times |-> Undefined, minTimes |-> Undefined,
             maxTimes |-> Undefined, i |-> 0, calls |-> 0, last |-> None,
             entry |-> 0]

\* Mutant of bound: the counter is compared one iteration late
boundLate(r) ==
  \/ r.times # Undefined /\ r.i = r.times + 1
  \/ r.maxTimes # Undefined /\ r.i = r.maxTimes + 1

\* Whether the loop stops before invoking the sequence: i === times || i === maxTimes
bound(r) == r.i = r.times \/ r.i = r.maxTimes

\* Mutant of afterSequence: a null result is held against the times / minTimes conditions
afterSequenceNullChecked(r, result) ==
  IF result = "parser" THEN [pc |-> "loop", i |-> r.i + 1, err |-> None]
  ELSE IF r.times # Undefined /\ r.i # r.times
    THEN [pc |-> "failed", i |-> r.i, err |-> "RepeatConditionError"]
  ELSE IF r.minTimes # Undefined /\ r.i < r.minTimes
    THEN [pc |-> "failed", i |-> r.i, err |-> "RepeatConditionError"]
  ELSE [pc |-> "done", i |-> r.i, err |-> None]

\* Mutant of afterSequence: the catch block tests minTimes only
afterSequenceNoTimes(r, result) ==
  IF result = "parser" THEN [pc |-> "loop", i |-> r.i + 1, err |-> None]
  ELSE IF result = "null" THEN [pc |-> "done", i |-> r.i + 1, err |-> None]
  ELSE IF r.minTimes # Undefined /\ r.i < r.minTimes
    THEN [pc |-> "failed", i |-> r.i, err |-> "RepeatConditionError"]
  ELSE [pc |-> "done", i |-> r.i, err |-> None]

\* Mutant of afterSequence: minTimes is compared with <= in the catch block
afterSequenceMinOffByOne(r, result) ==
  IF result = "parser" THEN [pc |-> "loop", i |-> r.i + 1, err |-> None]
  ELSE IF result = "null" THEN [pc |-> "done", i |-> r.i + 1, err |-> None]
  ELSE IF r.times # Undefined /\ r.i # r.times
    THEN [pc |-> "failed", i |-> r.i, err |-> "RepeatConditionError"]
  ELSE IF r.minTimes # Undefined /\ r.i <= r.minTimes
    THEN [pc |-> "failed", i |-> r.i, err |-> "RepeatConditionError"]
  ELSE [pc |-> "done", i |-> r.i, err |-> None]

\* Mutant of afterSequence: the catch block throws again when no condition absorbs the failure
afterSequenceRethrow(r, result) ==
  IF result = "parser" THEN [pc |-> "loop", i |-> r.i + 1, err |-> None]
  ELSE IF result = "null" THEN [pc |-> "done", i |-> r.i + 1, err |-> None]
  ELSE IF r.times # Undefined /\ r.i # r.times
    THEN [pc |-> "failed", i |-> r.i, err |-> "RepeatConditionError"]
  ELSE IF r.minTimes # Undefined /\ r.i < r.minTimes
    THEN [pc |-> "failed", i |-> r.i, err |-> "RepeatConditionError"]
  ELSE [pc |-> "failed", i |-> r.i, err |-> "OutOfData"]

\* Mutant of afterSequence: a minTimes condition fails the loop however many iterations completed
afterSequenceMinAlways(r, result) ==
  IF result = "parser" THEN [pc |-> "loop", i |-> r.i + 1, err |-> None]
  ELSE IF result = "null" THEN [pc |-> "done", i |-> r.i + 1, err |-> None]
  ELSE IF r.times # Undefined /\ r.i # r.times
    THEN [pc |-> "failed", i |-> r.i, err |-> "RepeatConditionError"]
  ELSE IF r.minTimes # Undefined
    THEN [pc |-> "failed", i |-> r.i, err |-> "RepeatConditionError"]
  ELSE [pc |-> "done", i |-> r.i, err |-> None]

\* Mutant of afterSequence: the catch block has no break, an absorbed failure goes on looping
afterSequenceNoBreak(r, result) ==
  IF result = "parser" THEN [pc |-> "loop", i |-> r.i + 1, err |-> None]
  ELSE IF result = "null" THEN [pc |-> "done", i |-> r.i + 1, err |-> None]
  ELSE IF r.times # Undefined /\ r.i # r.times
    THEN [pc |-> "failed", i |-> r.i, err |-> "RepeatConditionError"]
  ELSE IF r.minTimes # Undefined /\ r.i < r.minTimes
    THEN [pc |-> "failed", i |-> r.i, err |-> "RepeatConditionError"]
  ELSE [pc |-> "loop", i |-> r.i, err |-> None]

\* What repeat does with the outcome (result) of one invocation of the sequence:
\* the next control state, the counter i, and the error it throws
afterSequence(r, result) ==
  IF result = "parser" THEN [pc |-> "loop", i |-> r.i + 1, err |-> None]
  ELSE IF result = "null" THEN [pc |-> "done", i |-> r.i + 1, err |-> None]
  ELSE IF r.times # Undefined /\ r.i # r.times
    THEN [pc |-> "failed", i |-> r.i, err |-> "RepeatConditionError"]
  ELSE IF r.minTimes # Undefined /\ r.i < r.minTimes
    THEN [pc |-> "failed", i |-> r.i, err |-> "RepeatConditionError"]
  ELSE [pc |-> "done", i |-> r.i, err |-> None]

\* The parser is between two calls of its caller
Ready == rep.pc # "loop"

\* repeat() is entered: the conditions are read and i is set to 0; entry keeps the
\* cursor the loop started at, calls counts the invocations of the sequence
RepeatBegin(c) ==
  /\ Ready
  /\ rep' = [pc |-> "loop", times |-> c.times, minTimes |-> c.minTimes,
             maxTimes |-> c.maxTimes, i |-> 0, calls |-> 0, last |-> None,
             entry |-> poffset]
  /\ pop' = "repeat"
  /\ perr' = None
  /\ UNCHANGED <<input, poffset, value, pendian, pcall>>

\* Mutant of RepeatStep: the catch block lets an error thrown by the callback itself through
RepeatStepRethrowsCallback ==
  /\ rep.pc = "loop"
  /\ IF bound(rep)
     THEN /\ rep' = [rep EXCEPT !.pc = "done"]
          /\ UNCHANGED <<input, poffset, value, pendian, pop, perr, pcall>>
     ELSE LET s == Sequence(poffset, value)
              a == IF poffset < Len(input) /\ input[poffset + 1] \notin {0, 1, 2, 3}
                   THEN [pc |-> "failed", i |-> rep.i, err |-> "CallbackError"]
                   ELSE afterSequence(rep, s.ret)
          IN  /\ rep' = [rep EXCEPT !.pc = a.pc, !.i = a.i,
                                    !.calls = rep.calls + 1, !.last = s.ret]
              /\ poffset' = s.offset
              /\ value' = s.value
              /\ perr' = a.err
              /\ UNCHANGED <<input, pendian, pop, pcall>>

\* One pass of the while (true) loop
RepeatStep ==
  /\ rep.pc = "loop"
  /\ IF bound(rep)
     THEN /\ rep' = [rep EXCEPT !.pc = "done"]
          /\ UNCHANGED <<input, poffset, value, pendian, pop, perr, pcall>>
     ELSE LET s == Sequence(poffset, value)
              a == afterSequence(rep, s.ret)
          IN  /\ rep' = [rep EXCEPT !.pc = a.pc, !.i = a.i,
                                    !.calls = rep.calls + 1, !.last = s.ret]
              /\ poffset' = s.offset
              /\ value' = s.value
              /\ perr' = a.err
              /\ UNCHANGED <<input, pendian, pop, pcall>>

\* parser.number(bits, name) called by the parser's owner
PNumber(bits, name) ==
  LET r == number(poffset, value, bits, name)
  IN  /\ Ready
      /\ poffset' = r.offset
      /\ value' = r.value
      /\ pop' = "number"
      /\ perr' = r.err
      /\ rep' = NoRepeat
      /\ UNCHANGED <<input, pendian, pcall>>

ParserIdle ==
  /\ input = <<>>
  /\ poffset = 0
  /\ value = EmptyValue
  /\ pendian = BIG
  /\ pop = "new"
  /\ perr = None
  /\ rep = NoRepeat
  /\ pcall = NoCall

BuilderIdle ==
  /\ buf = <<>>
  /\ offset = 0
  /\ _length = 0
  /\ marks = [id \in MarkNames |-> Undefined]
  /\ endian = BIG
  /\ limit = initialSize
  /\ op = "new"
  /\ arg = None
  /\ err = None
  /\ ret = None
  /\ bp = NoBp
  /\ sent = None

\* PduParser.parse(hex): the parser over the decoded bytes, with the default options
ParserInit ==
  /\ input \in SeqsUpTo(InputBytes, MaxInput)
  /\ poffset = 0
  /\ value = EmptyValue
  /\ pendian = BIG
  /\ pop = "new"
  /\ perr = None
  /\ rep = NoRepeat
  /\ pcall = NoCall
  /\ BuilderIdle

ParserNext ==
  \/ \E c \in Conditions : RepeatBegin(c) /\ UNCHANGED <<bvars, sent>>
  \/ RepeatStep /\ UNCHANGED <<bvars, sent>>
  \/ \E bits \in BitLength, name \in FieldNames : PNumber(bits, name) /\ UNCHANGED <<bvars, sent>>

ParserSpec == ParserInit /\ [][ParserNext]_vars

----------------------------------------------------------------------------
\* PduParser: readers, count-prefixed reads and strings

\* A decoded value as the record holds it, a pair of its JavaScript type and its
\* content: "number" with a number, "array" with a sequence of numbers, "string"
\* with the code points of a text
Datum(t, v) == <<t, v>>
NoData == Datum("none", <<>>)

\* The readers a caller passes to a read: a property name; a function returning
\* a mapping of the given keys to its argument; a function returning nothing
Readers ==
  [kind : {"name"}, keys : {{k} : k \in FieldNames}]
    \cup [kind : {"function"}, keys : {{}, FieldNames}]
    \cup [kind : {"void"}, keys : {{}}]

\* A function that branches on its argument, issues nested reads on the parser
\* it is given and returns that parser
BranchReader == [kind |-> "branch", keys |-> {}]

\* The records a parser is created over: options.target left out, or holding "b"
Targets == {EmptyValue, [EmptyValue EXCEPT !["b"] = <<Datum("target", <<>>)>>]}

\* Object.assign(this.value, mapping) for a mapping of keys to data
Assign(val, keys, data) == [k \in FieldNames |-> IF k \in keys THEN <<data>> ELSE val[k]]

ReadData(e, off, val, data) == [err |-> e, offset |-> off, value |-> val, data |-> data]

\* A nested read parser.number(bits, name) issued by a branching function
field(off, val, bits, name) ==
  LET r == readNumber(off, bits)
  IN  IF r.err # None THEN Read(r.err, off, val)
      ELSE Read(None, r.offset, Assign(val, {name}, Datum("number", r.v)))

\* The branching function of the tests: type 1 reads a uint16 into "a", type 2 a
\* uint8 into "b", type 3 a uint8 into "a" then a uint8 into "b", type 0 reads
\* nothing, any other type throws
branch(off, val, type) ==
  IF type = N(0) THEN Read(None, off, val)
  ELSE IF type = N(1) THEN field(off, val, 16, "a")
  ELSE IF type = N(2) THEN field(off, val, 8, "b")
  ELSE IF type = N(3) THEN
    LET r1 == field(off, val, 8, "a")
    IN  IF r1.err # None THEN r1 ELSE field(r1.offset, r1.value, 8, "b")
  ELSE Read("CallbackError", off, val)

\* Mutant of parseReader: whatever the function returns is merged, the parser included
parseReaderMergesParser(off, val, reader, data) ==
  IF reader.kind = "branch" THEN
    LET r == branch(off, val, data[2])
    IN  IF r.err # None THEN r
        ELSE Read(None, r.offset, Assign(r.value, {"b"}, Datum("parser", <<>>)))
  ELSE IF reader.kind = "void" THEN Read(None, off, val)
  ELSE Read(None, off, Assign(val, reader.keys, data))

\* Mutant of parseReader: the mapping replaces the record instead of being merged into it
parseReaderReplaces(off, val, reader, data) ==
  IF reader.kind = "branch" THEN branch(off, val, data[2])
  ELSE IF reader.kind = "void" THEN Read(None, off, val)
  ELSE Read(None, off, Assign(EmptyValue, reader.keys, data))

\* Mutant of parseReader: a function returning nothing has its argument stored under "a"
parseReaderStoresVoid(off, val, reader, data) ==
  IF reader.kind = "branch" THEN branch(off, val, data[2])
  ELSE IF reader.kind = "void" THEN Read(None, off, Assign(val, {"a"}, data))
  ELSE Read(None, off, Assign(val, reader.keys, data))

\* parse(reader, data) with the cursor at off: the reader is called, and what it
\* returns is merged unless it is nothing or a parser
parseReader(off, val, reader, data) ==
  IF reader.kind = "branch" THEN branch(off, val, data[2])
  ELSE IF reader.kind = "void" THEN Read(None, off, val)
  ELSE Read(None, off, Assign(val, reader.keys, data))

\* for (let i = 0; i < count; i++) values.push(this.readNumber(bits))
RECURSIVE readLoop(_, _, _)
readLoop(off, bits, count) ==
  IF count = 0 THEN [err |-> None, offset |-> off, values |-> <<>>]
  ELSE LET r == readNumber(off, bits)
       IN  IF r.err # None THEN [err |-> r.err, offset |-> off, values |-> <<>>]
           ELSE LET rest == readLoop(r.offset, bits, count - 1)
                IN  [err |-> rest.err, offset |-> rest.offset,
                     values |-> <<r.v>> \o rest.values]

\* Mutant of readNumbers: a count of one yields the value itself, not an array
readNumbersUnwrapsOne(off, val, bits, count, reader) ==
  IF count # Undefined /\ count # 1 THEN
    LET r == readLoop(off, bits, count)
        d == Datum("array", r.values)
        q == parseReader(r.offset, val, reader, d)
    IN  IF r.err # None THEN ReadData(r.err, r.offset, val, NoData)
        ELSE ReadData(q.err, q.offset, q.value, d)
  ELSE
    LET r == readNumber(off, bits)
        d == Datum("number", r.v)
        q == parseReader(r.offset, val, reader, d)
    IN  IF r.err # None THEN ReadData(r.err, off, val, NoData)
        ELSE ReadData(q.err, q.offset, q.value, d)

\* readNumbers(bits, reader) and readNumbers(bits, count, reader); count is
\* Undefined where the caller gives none
readNumbers(off, val, bits, count, reader) ==
  IF count # Undefined THEN
    LET r == readLoop(off, bits, count)
        d == Datum("array", r.values)
        q == parseReader(r.offset, val, reader, d)
    IN  IF r.err # None THEN ReadData(r.err, r.offset, val, NoData)
        ELSE ReadData(q.err, q.offset, q.value, d)
  ELSE
    LET r == readNumber(off, bits)
        d == Datum("number", r.v)
        q == parseReader(r.offset, val, reader, d)
    IN  IF r.err # None THEN ReadData(r.err, off, val, NoData)
        ELSE ReadData(q.err, q.offset, q.value, d)

\* utfx.decodeUTF8: the code points of a byte sequence; a starting byte that opens
\* no sequence, or a sequence cut short, is an error
RECURSIVE decodeUTF8(_)
decodeUTF8(bs) ==
  IF bs = <<>> THEN [err |-> None, str |-> <<>>]
  ELSE
    LET a == Head(bs)
        n == IF a < 128 THEN 1
             ELSE IF a \div 32 = 6 THEN 2
             ELSE IF a \div 16 = 14 THEN 3
             ELSE IF a \div 8 = 30 THEN 4
             ELSE 0
    IN  IF n = 0 \/ Len(bs) < n THEN [err |-> "OutOfData", str |-> <<>>]
        ELSE
          LET cp == IF n = 1 THEN a
                    ELSE IF n = 2 THEN (a % 32) * 64 + (bs[2] % 64)
                    ELSE IF n = 3 THEN (a % 16) * 4096 + (bs[2] % 64) * 64 + (bs[3] % 64)
                    ELSE (a % 8) * 262144 + (bs[2] % 64) * 4096
                           + (bs[3] % 64) * 64 + (bs[4] % 64)
              rest == decodeUTF8(SubSeq(bs, n + 1, Len(bs)))
          IN  IF rest.err # None THEN rest
              ELSE [err |-> None, str |-> <<cp>> \o rest.str]

ReadStr(e, off, str) == [err |-> e, offset |-> off, str |-> str]

\* buf.readUTF8String(strlen, METRICS_BYTES): strlen bytes decoded as UTF-8
readUTF8String(off, strlen) ==
  IF strlen.hi > 0 \/ off + strlen.lo > Len(input) THEN ReadStr("OutOfData", off, <<>>)
  ELSE LET d == decodeUTF8(SubSeq(input, off + 1, off + strlen.lo))
       IN  IF d.err # None THEN ReadStr(d.err, off, <<>>)
           ELSE ReadStr(None, off + strlen.lo, d.str)

\* Mutant of readCString: the zero byte that ends the text is left unread
readCStringKeepsZero(off) ==
  IF \A i \in (off + 1)..Len(input) : input[i] # 0 THEN ReadStr("OutOfData", off, <<>>)
  ELSE LET z == CHOOSE i \in (off + 1)..Len(input) :
                  input[i] = 0 /\ \A j \in (off + 1)..(i - 1) : input[j] # 0
           d == decodeUTF8(SubSeq(input, off + 1, z - 1))
       IN  IF d.err # None THEN ReadStr(d.err, off, <<>>)
           ELSE ReadStr(None, z - 1, d.str)

\* buf.readCString(): the bytes up to the next zero byte, which is consumed
readCString(off) ==
  IF \A i \in (off + 1)..Len(input) : input[i] # 0 THEN ReadStr("OutOfData", off, <<>>)
  ELSE LET z == CHOOSE i \in (off + 1)..Len(input) :
                  input[i] = 0 /\ \A j \in (off + 1)..(i - 1) : input[j] # 0
           d == decodeUTF8(SubSeq(input, off + 1, z - 1))
       IN  IF d.err # None THEN ReadStr(d.err, off, <<>>)
           ELSE ReadStr(None, z, d.str)

\* readString(strlen): if (strlen) readUTF8String(strlen) else readCString();
\* strlen is <<>> where the caller gives none, else <<n>>
readString(off, strlen) ==
  IF strlen # <<>> /\ strlen[1] # N(0) THEN readUTF8String(off, strlen[1])
  ELSE readCString(off)

\* Mutant of pstring: lengthBits left out is 8 whether or not nullTerminate is set
pstringDefaultEight(off, val, reader, lengthBits, nullTerminate) ==
  LET lb == IF lengthBits # Default THEN lengthBits ELSE 8
  IN  IF lb # 0 THEN
        LET n == readNumber(off, lb)
            r == readString(n.offset, <<n.v>>)
            d == Datum("string", r.str)
            q == parseReader(r.offset, val, reader, d)
        IN  IF n.err # None THEN ReadData(n.err, off, val, NoData)
            ELSE IF r.err # None THEN ReadData(r.err, n.offset, val, NoData)
            ELSE ReadData(q.err, q.offset, q.value, d)
      ELSE IF nullTerminate THEN
        LET r == readString(off, <<>>)
            d == Datum("string", r.str)
            q == parseReader(r.offset, val, reader, d)
        IN  IF r.err # None THEN ReadData(r.err, off, val, NoData)
            ELSE ReadData(q.err, q.offset, q.value, d)
      ELSE ReadData("ConfigError", off, val, NoData)

\* PduParser.string(reader, {lengthBits, nullTerminate}); lengthBits left out
\* (Default) is 0 with nullTerminate and 8 without
pstring(off, val, reader, lengthBits, nullTerminate) ==
  LET lb == IF lengthBits # Default THEN lengthBits ELSE IF nullTerminate THEN 0 ELSE 8
  IN  IF lb # 0 THEN
        LET n == readNumber(off, lb)
            r == readString(n.offset, <<n.v>>)
            d == Datum("string", r.str)
            q == parseReader(r.offset, val, reader, d)
        IN  IF n.err # None THEN ReadData(n.err, off, val, NoData)
            ELSE IF r.err # None THEN ReadData(r.err, n.offset, val, NoData)
            ELSE ReadData(q.err, q.offset, q.value, d)
      ELSE IF nullTerminate THEN
        LET r == readString(off, <<>>)
            d == Datum("string", r.str)
            q == parseReader(r.offset, val, reader, d)
        IN  IF r.err # None THEN ReadData(r.err, off, val, NoData)
            ELSE ReadData(q.err, q.offset, q.value, d)
      ELSE ReadData("ConfigError", off, val, NoData)

\* Applies the outcome of a primitive read to the instance; the reads form one
\* chain of calls, which a thrown error ends
ReadOutcome(call, r) ==
  /\ Ready
  /\ perr = None
  /\ poffset' = r.offset
  /\ value' = r.value
  /\ perr' = r.err
  /\ pop' = call.op
  /\ pcall' = [call EXCEPT !.data = r.data]
  /\ UNCHANGED <<input, pendian, rep>>

\* parser.number(bits, reader) and parser.number(bits, count, reader)
ReadNumbers(bits, count, reader) ==
  ReadOutcome([op |-> "number", bits |-> bits, count |-> count, reader |-> reader,
               nullTerminate |-> FALSE, data |-> NoData],
              readNumbers(poffset, value, bits, count, reader))

\* parser.uint8(branching function)
ReadBranch ==
  ReadOutcome([op |-> "branch", bits |-> 8, count |-> Undefined, reader |-> BranchReader,
               nullTerminate |-> FALSE, data |-> NoData],
              readNumbers(poffset, value, 8, Undefined, BranchReader))

\* parser.string(reader, options); bits is the width of the prefix that is read
ReadString(reader, lengthBits, nullTerminate) ==
  ReadOutcome([op |-> "string",
               bits |-> IF lengthBits # Default THEN lengthBits
                        ELSE IF nullTerminate THEN 0 ELSE 8,
               lengthBits |-> lengthBits, count |-> Undefined, reader |-> reader,
               nullTerminate |-> nullTerminate, data |-> NoData],
              pstring(poffset, value, reader, lengthBits, nullTerminate))

MaxRead  == 3                         \* bytes of the input of a chain of reads
MaxCount == 2                         \* largest count given to a count-prefixed read
Counts   == {Undefined} \cup (0..MaxCount)

\* The bytes of the inputs read by chains of number reads: the types 0, 1 and 3
\* of the branching function
ReadBytes == {0, 1, 3}

\* PduParser.parse(hex, {target})
ReadInit ==
  /\ input \in SeqsUpTo(ReadBytes, MaxRead)
  /\ poffset = 0
  /\ value \in Targets
  /\ pendian = BIG
  /\ pop = "new"
  /\ perr = None
  /\ rep = NoRepeat
  /\ pcall = NoCall
  /\ BuilderIdle

ReadNext ==
  \/ \E bits \in BitLength, count \in Counts, reader \in Readers :
       ReadNumbers(bits, count, reader) /\ UNCHANGED <<bvars, sent>>
  \/ ReadBranch /\ UNCHANGED <<bvars, sent>>

ReadSpec == ReadInit /\ [][ReadNext]_vars

\* A chain of string reads
StringNext ==
  \E reader \in Readers, lengthBits \in {Default, 0, 8, 16, 32}, nullTerminate \in BOOLEAN :
    ReadString(reader, lengthBits, nullTerminate) /\ UNCHANGED <<bvars, sent>>

StringInit ==
  /\ input \in SeqsUpTo(InputBytes, MaxRead)
  /\ poffset = 0
  /\ value \in Targets
  /\ pendian = BIG
  /\ pop = "new"
  /\ perr = None
  /\ rep = NoRepeat
  /\ pcall = NoCall
  /\ BuilderIdle

StringSpec == StringInit /\ [][StringNext]_vars

----------------------------------------------------------------------------
\* A field written by a builder, built, and read back by a parser

\* ByteBuffer.wrap(hex, 'hex'): the bytes of a hex text
wrapHex(text) ==
  IF Len(text) % 2 # 0 \/ \E i \in 1..Len(text) : ~IsHexDigit(text[i])
  THEN [err |-> "TypeError", bytes |-> <<>>]
  ELSE [err |-> None,
        bytes |-> [i \in 1..(Len(text) \div 2) |->
                     16 * HexVal(text[2 * i - 1]) + HexVal(text[2 * i])]]

\* Mutant of phex: the length prefix is read but the count of bytes taken is one short
phexShort(off, val, reader, lengthBits, len) ==
  LET lb == IF lengthBits # Default THEN lengthBits
            ELSE IF len # Undefined THEN 0 ELSE 8
      n  == IF lb # 0 THEN readNumber(off, lb)
            ELSE [err |-> None, offset |-> off, v |-> N(len)]
      m  == IF n.v.lo > 0 THEN n.v.lo - 1 ELSE 0
      d  == Datum("hex", toHex(SubSeq(input, n.offset + 1, n.offset + m)))
      q  == parseReader(n.offset + n.v.lo, val, reader, d)
  IN  IF lb = 0 /\ len = Undefined THEN ReadData("ConfigError", off, val, NoData)
      ELSE IF n.err # None THEN ReadData(n.err, off, val, NoData)
      ELSE IF n.v.hi > 0 \/ n.offset + n.v.lo > Len(input)
        THEN ReadData("RangeError", n.offset, val, NoData)
      ELSE ReadData(q.err, q.offset, q.value, d)

\* PduParser.hex(reader, {length, lengthBits}); an option left out is Default
\* (lengthBits) or Undefined (length, here len)
phex(off, val, reader, lengthBits, len) ==
  LET lb == IF lengthBits # Default THEN lengthBits
            ELSE IF len # Undefined THEN 0 ELSE 8
      n  == IF lb # 0 THEN readNumber(off, lb)
            ELSE [err |-> None, offset |-> off, v |-> N(len)]
      d  == Datum("hex", toHex(SubSeq(input, n.offset + 1, n.offset + n.v.lo)))
      q  == parseReader(n.offset + n.v.lo, val, reader, d)
  IN  IF lb = 0 /\ len = Undefined THEN ReadData("ConfigError", off, val, NoData)
      ELSE IF n.err # None THEN ReadData(n.err, off, val, NoData)
      ELSE IF n.v.hi > 0 \/ n.offset + n.v.lo > Len(input)
        THEN ReadData("RangeError", n.offset, val, NoData)
      ELSE ReadData(q.err, q.offset, q.value, d)

\* parser.hex(reader, options)
ReadHex(reader, lengthBits, len) ==
  ReadOutcome([op |-> "hex", bits |-> lengthBits, count |-> len, reader |-> reader,
               nullTerminate |-> FALSE, data |-> NoData],
              phex(poffset, value, reader, lengthBits, len))

\* The values, texts and byte sequences sent on a round trip
RtValues ==
  { N(0), N(1), N(255), N(256), N(65535), [hi |-> 1, lo |-> 0], [hi |-> 258, lo |-> 772],
    [hi |-> 32768, lo |-> 0], [hi |-> 65535, lo |-> 65535] }
RtTexts  == { <<>>, <<97>>, <<0>>, <<97, 98, 99>>, <<233>>, <<8364, 97>>, <<128512>> }
RtBytes  == { <<>>, <<0>>, <<171>>, <<171, 205, 239>>, <<0, 255>> }

\* The hex text of a byte sequence in capital digits, as a caller may write it
RECURSIVE upperHex(_)
upperHex(bs) ==
  IF bs = <<>> THEN <<>>
  ELSE <<UpperHex[(Head(bs) \div 16) + 1], UpperHex[(Head(bs) % 16) + 1]>>
         \o upperHex(Tail(bs))

\* The first call on a new builder: one field. a is the descriptor and the value
WriteField(name, a, r) ==
  /\ op = "new"
  /\ buf' = r.buf
  /\ offset' = r.offset
  /\ Outcome(name, None, r.err, This)
  /\ bp' = NoBp
  /\ sent' = a
  /\ UNCHANGED <<_length, marks, endian, limit>>

RtNumber(bits, v) ==
  WriteField("number", [kind |-> "number", bits |-> bits, x |-> v], numberLoop(buf, offset, bits, <<v>>))

RtString(str, lengthBits) ==
  WriteField("string", [kind |-> "string", bits |-> lengthBits, x |-> str],
             string(str, lengthBits, 0, Default, FALSE))

RtHex(b, form, lengthBits) ==
  WriteField("hex", [kind |-> "hex", bits |-> lengthBits, x |-> b],
             IF form = "buffer" THEN hex(b, FALSE, lengthBits, 0, Default)
             ELSE hex(IF form = "upper" THEN upperHex(b) ELSE toHex(b),
                      TRUE, lengthBits, 0, Default))

\* builder.build() once the field is written
RtBuild ==
  /\ op \in {"number", "string", "hex"}
  /\ err = None
  /\ Build

\* PduParser.parse(hex, {endian}) over the text the builder built
RtParse ==
  /\ op = "build"
  /\ pop = "new"
  /\ wrapHex(ret).err = None
  /\ input' = wrapHex(ret).bytes
  /\ poffset' = 0
  /\ value' = EmptyValue
  /\ pendian' = endian
  /\ pop' = "parse"
  /\ perr' = None
  /\ UNCHANGED <<rep, pcall>>

\* The read that matches the field written: the same width or lengthBits, and
\* for a byte span without length prefix the length of the span
RtRead ==
  /\ pop = "parse"
  /\ LET reader == [kind |-> "name", keys |-> {"a"}]
     IN  \/ sent.kind = "number" /\ ReadNumbers(sent.bits, Undefined, reader)
         \/ sent.kind = "string" /\ ReadString(reader, sent.bits, FALSE)
         \/ sent.kind = "hex"
              /\ ReadHex(reader, sent.bits, IF sent.bits = 0 THEN Len(sent.x) ELSE Undefined)

RoundTripInit ==
  /\ buf = <<>>
  /\ offset = 0
  /\ _length = 0
  /\ marks = [id \in MarkNames |-> Undefined]
  /\ endian \in {BIG, LITTLE}
  /\ limit = initialSize
  /\ op = "new"
  /\ arg = None
  /\ err = None
  /\ ret = None
  /\ bp = NoBp
  /\ sent = None
  /\ ParserIdle

RoundTripNext ==
  \/ \E bits \in BitLength, v \in RtValues : RtNumber(bits, v) /\ UNCHANGED pvars
  \/ \E str \in RtTexts, lengthBits \in BitLength : RtString(str, lengthBits) /\ UNCHANGED pvars
  \/ \E b \in RtBytes, form \in {"buffer", "lower", "upper"}, lengthBits \in {0, 8, 16, 32} :
       RtHex(b, form, lengthBits) /\ UNCHANGED pvars
  \/ RtBuild /\ UNCHANGED <<pvars, sent>>
  \/ RtParse /\ UNCHANGED <<bvars, sent>>
  \/ RtRead /\ UNCHANGED <<bvars, sent>>

RoundTripSpec == RoundTripInit /\ [][RoundTripNext]_vars

----------------------------------------------------------------------------
\* A chain of reads of every kind on one parser: numbers, count-prefixed numbers,
\* branching reads, strings, byte spans and repeat loops

ChainReader == [kind |-> "name", keys |-> {"a"}]

\* The repeat conditions used in a chain: none, an exact count, an upper bound
ChainConditions ==
  { [times |-> Undefined, minTimes |-> Undefined, maxTimes |-> Undefined],
    [times |-> MaxTimes, minTimes |-> Undefined, maxTimes |-> Undefined],
    [times |-> Undefined, minTimes |-> Undefined, maxTimes |-> 1] }

ChainInit ==
  /\ input \in SeqsUpTo(InputBytes, MaxRead)
  /\ poffset = 0
  /\ value = EmptyValue
  /\ pendian = BIG
  /\ pop = "new"
  /\ perr = None
  /\ rep = NoRepeat
  /\ pcall = NoCall
  /\ BuilderIdle

ChainNext ==
  \/ \E bits \in BitLength, count \in {Undefined, MaxCount} :
       ReadNumbers(bits, count, ChainReader) /\ UNCHANGED <<bvars, sent>>
  \/ ReadBranch /\ UNCHANGED <<bvars, sent>>
  \/ \E lengthBits \in {0, 8, 16}, nullTerminate \in BOOLEAN :
       ReadString(ChainReader, lengthBits, nullTerminate) /\ UNCHANGED <<bvars, sent>>
  \/ \E lengthBits \in {Default, 0, 8}, len \in {Undefined, 0, MaxCount} :
       ReadHex(ChainReader, lengthBits, len) /\ UNCHANGED <<bvars, sent>>
  \/ \E c \in ChainConditions : perr = None /\ RepeatBegin(c) /\ UNCHANGED <<bvars, sent>>
  \/ RepeatStep /\ UNCHANGED <<bvars, sent>>

ChainSpec == ChainInit /\ [][ChainNext]_vars

----------------------------------------------------------------------------
\* A chain of writes on one builder of either byte order, then build(); sent holds
\* the calls made so far, with their arguments

MaxFields == 2                        \* writes of a chain

\* -1, 0xCA, 2^8, 2^16, 0x01020304, 2^32
EncValues ==
  { N(-1), N(202), N(256), [hi |-> 1, lo |-> 0], [hi |-> 258, lo |-> 772],
    [hi |-> 65536, lo |-> 0] }
EncTexts  == { <<>>, <<97>>, <<233>>, <<97, 98>> }     \* '', 'a', 'e' with acute, 'ab'
EncBytes  == { <<>>, <<171, 205>> }
EncMinLengths == {0, 2}
EncMaxLengths == {Default, 1, 300}

\* One write of the chain; a thrown error ends the chain
Field(name, a, r) ==
  /\ err = None
  /\ Len(sent) < MaxFields
  /\ buf' = r.buf
  /\ offset' = r.offset
  /\ Outcome(name, None, r.err, This)
  /\ bp' = NoBp
  /\ sent' = Append(sent, a)
  /\ UNCHANGED <<_length, marks, endian, limit>>

EncNumber(bits, values) ==
  Field("number", [kind |-> "number", bits |-> bits, x |-> values],
        numberLoop(buf, offset, bits, values))

\* string(str, options); lengthBits left out (Default) is 8
EncString(str, lengthBits, minLength, maxLength, nullTerminate) ==
  LET lb == IF lengthBits = Default THEN 8 ELSE lengthBits
  IN  Field("string", [kind |-> "string", bits |-> lb, x |-> str, lengthBits |-> lengthBits,
                       min |-> minLength, max |-> maxLength, nullTerminate |-> nullTerminate],
            string(str, lb, minLength, maxLength, nullTerminate))

\* hex(data, options) for hex text (isText) or a Buffer; x holds the bytes of the data
EncHex(data, isText, lengthBits, minLength, maxLength) ==
  Field("hex", [kind |-> "hex", bits |-> lengthBits,
                x |-> IF isText THEN parseHex(data).bytes ELSE data,
                data |-> data, isText |-> isText, min |-> minLength, max |-> maxLength],
        hex(data, isText, lengthBits, minLength, maxLength))

\* builder.build() after the writes made so far
EncBuild ==
  /\ err = None
  /\ op # "build"
  /\ Build
  /\ UNCHANGED sent

RECURSIVE NumbersBytes(_, _)
NumbersBytes(bits, values) ==
  IF values = <<>> THEN <<>>
  ELSE NumberBytes(Head(values), bits, endian) \o NumbersBytes(bits, Tail(values))

\* The bytes one call writes on its own: each value of number() in bits / 8 bytes;
\* the text of string() in UTF-8, with a zero byte after it when nullTerminate and
\* the count of those bytes before it when lengthBits is not 0; the bytes of
\* hex() with their count before them when lengthBits is not 0
Encoding(d) ==
  IF d.kind = "number" THEN NumbersBytes(d.bits, d.x)
  ELSE LET body == IF d.kind = "hex" THEN d.x
                   ELSE IF d.nullTerminate THEN Append(writeUTF8String(d.x), 0)
                   ELSE writeUTF8String(d.x)
       IN  (IF d.bits # 0 THEN NumberBytes(N(Len(body)), d.bits, endian) ELSE <<>>) \o body

RECURSIVE Encodings(_)
Encodings(ds) ==
  IF ds = <<>> THEN <<>> ELSE Encoding(Head(ds)) \o Encodings(Tail(ds))

\* The read that matches the field whose bytes start at the parser's cursor:
\* number(bits) or number(bits, count), string or hex with the field's options
EncRead ==
  /\ pop # "new"
  /\ \E i \in 1..Len(sent) :
       LET d == sent[i]
       IN  /\ Len(Encodings(SubSeq(sent, 1, i - 1))) = poffset
           /\ Encoding(d) # <<>>
           /\ \/ /\ d.kind = "number"
                 /\ ReadNumbers(d.bits, IF Len(d.x) = 1 THEN Undefined ELSE Len(d.x),
                                ChainReader)
              \/ d.kind = "string" /\ ReadString(ChainReader, d.bits, d.nullTerminate)
              \/ /\ d.kind = "hex"
                 /\ ReadHex(ChainReader, d.bits, IF d.bits = 0 THEN Len(d.x) ELSE Undefined)

EncodeInit ==
  /\ buf = <<>>
  /\ offset = 0
  /\ _length = 0
  /\ marks = [id \in MarkNames |-> Undefined]
  /\ endian \in {BIG, LITTLE}
  /\ limit = initialSize
  /\ op = "new"
  /\ arg = None
  /\ err = None
  /\ ret = None
  /\ bp = NoBp
  /\ sent = <<>>
  /\ ParserIdle

EncodeNext ==
  \/ \E bits \in BitLength, values \in SeqsUpTo(EncValues, MaxValues) \ { <<>> } :
       pop = "new" /\ EncNumber(bits, values) /\ UNCHANGED pvars
  \/ \E str \in EncTexts, lb \in {Default, 0, 8, 16}, mn \in EncMinLengths,
        mx \in EncMaxLengths,
        nt \in BOOLEAN :
       pop = "new" /\ EncString(str, lb, mn, mx, nt) /\ UNCHANGED pvars
  \/ \E isText \in BOOLEAN, lb \in {0, 8}, mn \in EncMinLengths, mx \in EncMaxLengths :
       \E data \in (IF isText THEN HexTexts ELSE EncBytes) :
         pop = "new" /\ EncHex(data, isText, lb, mn, mx) /\ UNCHANGED pvars
  \/ pop = "new" /\ EncBuild /\ UNCHANGED pvars
  \/ RtParse /\ UNCHANGED <<bvars, sent>>
  \/ EncRead /\ UNCHANGED <<bvars, sent>>

EncodeSpec == EncodeInit /\ [][EncodeNext]_vars

----------------------------------------------------------------------------
\* The builder's specification

\* new PduBuilder(): the builder with the constructor's defaults
Init == BuilderIdle /\ ParserIdle

LengthBits == {0, 8, 16, 32}
MinLengths == {0, 2}
MaxLengths == {Default, 1}
HexBuffers == { <<>>, <<97>> }

Next ==
  \/ \E bits \in BitLength, values \in SeqsUpTo(Values, MaxValues) \ { <<>> } :
       Number(bits, values) /\ UNCHANGED <<pvars, sent>>
  \/ \E str \in SeqsUpTo(CodePoints, MaxText), lb \in LengthBits, mn \in MinLengths,
        mx \in MaxLengths, nt \in BOOLEAN :
       String(str, lb, mn, mx, nt) /\ UNCHANGED <<pvars, sent>>
  \/ \E data \in HexTexts, lb \in LengthBits, mn \in MinLengths, mx \in MaxLengths :
       Hex(data, TRUE, lb, mn, mx) /\ UNCHANGED <<pvars, sent>>
  \/ \E data \in HexBuffers, lb \in LengthBits, mn \in MinLengths, mx \in MaxLengths :
       Hex(data, FALSE, lb, mn, mx) /\ UNCHANGED <<pvars, sent>>
  \/ \E id \in MarkNames : SaveMark(id) /\ UNCHANGED <<pvars, sent>>
  \/ \E id \in MarkNames : LoadMark(id) /\ UNCHANGED <<pvars, sent>>
  \/ \E pos \in 0..(MaxLen + 1) : SetOffset(pos) /\ UNCHANGED <<pvars, sent>>
  \/ End /\ UNCHANGED <<pvars, sent>>
  \/ Remaining /\ UNCHANGED <<pvars, sent>>
  \/ Build /\ UNCHANGED <<pvars, sent>>

Spec == Init /\ [][Next]_vars


\* new PduBuilder({limit}): the constructor sets buf.limit to the limit it is given
Limits == {1, 2}

LimitInit ==
  /\ buf = <<>>
  /\ offset = 0
  /\ _length = 0
  /\ marks = [id \in MarkNames |-> Undefined]
  /\ endian = BIG
  /\ limit \in Limits
  /\ op = "new"
  /\ arg = None
  /\ err = None
  /\ ret = None
  /\ bp = NoBp
  /\ sent = None
  /\ ParserIdle

LimitSpec == LimitInit /\ [][Next]_vars

----------------------------------------------------------------------------
\* Properties of the builder (checked under Spec)

WriteOps == {"number", "string", "hex"}

\* C1: after saveMark, further writes, loadMark and an overwrite that ends within
\* the logical length L held at loadMark, end() puts the cursor at L, which is the
\* end of all bytes written, not at the end of the overwrite; the write that
\* follows end() starts there and keeps every byte written before it.
C1_EndRestoresTail ==
  [][ /\ (op' = "end" /\ bp.phase = "patched") =>
           (err' = None /\ offset' = bp.tail /\ offset' = Len(buf) /\ buf' = buf)
      /\ (bp.phase = "ended" /\ op' \in WriteOps /\ err' = None) =>
           (offset = Len(buf) /\ Len(buf') >= Len(buf) /\ SubSeq(buf', 1, Len(buf)) = buf)
    ]_vars

C1_Witness ==
  /\ op = "end"
  /\ bp.phase = "ended"
  /\ marks["NAME"] # Undefined
  /\ marks["NAME"] < offset
  /\ offset = bp.tail

\* C2: at every point the value of the length getter is the greatest offset any
\* write has reached, wherever the cursor is.
C2_LengthIsHighWater == length = Len(buf)

C2_Witness == op = "loadMark" /\ err = None /\ offset < length /\ length = Len(buf)

\* C3: a write made with the cursor at m below the logical length L changes only
\* the bytes from m up to the cursor it leaves; the bytes before m and the bytes
\* from the new cursor up to L keep their values, and the logical length stays L
\* unless the write ends beyond L, when it becomes the write's end.
C3_OverwriteFrame ==
  [][ (op' \in WriteOps /\ offset < length) =>
        /\ Len(buf') >= Len(buf)
        /\ \A i \in 1..Len(buf) : (i <= offset \/ i > offset') => buf'[i] = buf[i]
        /\ length' = IF offset' > length THEN offset' ELSE length
    ]_vars

C3_Witness ==
  /\ op \in WriteOps
  /\ err = None
  /\ bp.phase = "patched"
  /\ offset < Len(buf)

C5_LengthMonotone == [][ length' >= length ]_vars

C5_Witness == err # None /\ length > 0 /\ offset < length

\* C6: the cursor is never beyond the logical length, and setting the cursor to a
\* position greater than the logical length fails and leaves the cursor in place.
C6_CursorWithinLength ==
  [][ /\ offset' <= length'
      /\ offset' <= Len(buf')
      /\ (op' = "setOffset" /\ arg' > length) =>
           (err' = "PositionError" /\ offset' = offset)
    ]_vars

C6_Witness == op = "setOffset" /\ err = "PositionError" /\ arg > length /\ offset < length

\* C7: build() returns the hex text of the bytes in [0, logical length) wherever
\* the cursor is, and leaves cursor, bytes, marks and logical length unchanged, so
\* that a build() that follows returns the same text.
C7_BuildPure ==
  [][ op' = "build" =>
        /\ err' = None
        /\ ret' = toHex(SubSeq(buf, 1, Max(_length, offset)))
        /\ ret' = toHex(SubSeq(buf', 1, Max(_length', offset')))
        /\ offset' = offset /\ buf' = buf /\ marks' = marks
        /\ Max(_length', offset') = Max(_length, offset)
    ]_vars

C7_Witness ==
  /\ op = "build"
  /\ bp.phase = "loaded"
  /\ offset < length
  /\ Len(ret) = 2 * length

\* C38: every offset held in the mark table is at most the logical length, so
\* loadMark of a name saved before succeeds and puts the cursor on the saved
\* offset; saveMark sets the name to the cursor, replacing what the name held,
\* and changes neither cursor, bytes, logical length nor any other mark.
C38_MarksWithinLength ==
  [][ /\ \A id \in MarkNames : marks'[id] # Undefined => marks'[id] <= length'
      /\ (op' = "loadMark" /\ marks[arg'] # Undefined) =>
            /\ err' = None
            /\ offset' = marks[arg']
            /\ marks' = marks /\ buf' = buf /\ length' = length
      /\ op' = "saveMark" =>
            /\ err' = None
            /\ marks' = [marks EXCEPT ![arg'] = offset]
            /\ offset' = offset /\ buf' = buf /\ length' = length
    ]_vars

C38_Witness ==
  /\ op = "loadMark" /\ err = None
  /\ marks["NAME"] = 1
  /\ offset = 1
  /\ length = 3

----------------------------------------------------------------------------
\* Properties of the parser's repeat (checked under ParserSpec)

\* C8: when the sequence returns null the loop is over and has succeeded, so the
\* sequence is not invoked again, whatever the conditions and however few
\* iterations have completed.
C8_StopSignalEndsLoop ==
  rep.last = "null" => (rep.pc = "done" /\ perr = None)

C8_Witness ==
  /\ rep.last = "null"
  /\ rep.pc = "done"
  /\ rep.times # Undefined /\ rep.i < rep.times
  /\ rep.minTimes # Undefined /\ rep.i < rep.minTimes

\* C9: with times = N, an invocation of the sequence that fails after fewer than N
\* iterations have completed makes repeat fail with a repeat-condition error.
C9_TimesUnmetFails ==
  (rep.last = "throw" /\ rep.times # Undefined /\ rep.i < rep.times) =>
    (rep.pc = "failed" /\ perr = "RepeatConditionError")

C9_Witness ==
  /\ rep.pc = "failed"
  /\ rep.last = "throw"
  /\ rep.times = 2 /\ rep.i = 1
  /\ poffset = Len(input)

\* C10: with times = N or maxTimes = N the sequence is invoked at most N times; when
\* N iterations have completed the loop ends successfully without another
\* invocation and without touching cursor or record, and a read that follows
\* takes the bytes after the cursor.
C10_BoundEndsLoop ==
  [][ /\ (rep'.times # Undefined => rep'.calls <= rep'.times)
      /\ (rep'.maxTimes # Undefined => rep'.calls <= rep'.maxTimes)
      /\ (rep.pc = "loop" /\ (rep.i = rep.times \/ rep.i = rep.maxTimes)) =>
           /\ rep'.pc = "done" /\ rep'.calls = rep.calls /\ perr' = None
           /\ poffset' = poffset /\ value' = value
      /\ (rep.pc = "done" /\ pop' = "number" /\ perr' = None) =>
           (poffset' > poffset /\ poffset' <= Len(input))
    ]_vars

C10_Witness ==
  /\ rep.pc = "done"
  /\ rep.last = "parser"
  /\ (rep.i = rep.times \/ rep.i = rep.maxTimes)
  /\ rep.i > 0
  /\ poffset < Len(input)


\* C11: with minTimes = M, an invocation of the sequence that fails after fewer than
\* M completed iterations makes repeat fail with a repeat-condition error; one
\* that fails after M or more completed iterations (no exact count being asked)
\* ends the loop successfully, and every key of the record set so far stays set.
C11_MinTimes ==
  [][ (rep.pc = "loop" /\ rep'.last = "throw" /\ rep'.calls = rep.calls + 1
         /\ rep.minTimes # Undefined) =>
        IF rep.i < rep.minTimes
        THEN rep'.pc = "failed" /\ perr' = "RepeatConditionError"
        ELSE rep.times = Undefined =>
               /\ rep'.pc = "done" /\ perr' = None /\ rep'.i = rep.i
               /\ \A k \in FieldNames : value[k] # <<>> => value'[k] # <<>>
    ]_vars

C11_Witness ==
  /\ rep.pc = "done"
  /\ rep.last = "throw"
  /\ rep.times = Undefined
  /\ rep.minTimes > 0 /\ rep.i >= rep.minTimes
  /\ value # EmptyValue

\* C12: with no condition, or with maxTimes only, a failure inside the sequence ends
\* the loop successfully, and the record then holds every key that the
\* iterations completed before the failure had set.
C12_ParseToExhaustion ==
  [][ (rep.pc = "loop" /\ rep'.last = "throw" /\ rep'.calls = rep.calls + 1
         /\ rep.times = Undefined /\ rep.minTimes = Undefined) =>
        /\ rep'.pc = "done" /\ perr' = None /\ rep'.i = rep.i
        /\ \A k \in FieldNames : value[k] # <<>> => value'[k] # <<>>
        /\ (poffset' = poffset => value' = value)
    ]_vars

C12_Witness ==
  /\ rep.pc = "done"
  /\ rep.last = "throw"
  /\ rep.times = Undefined /\ rep.minTimes = Undefined /\ rep.maxTimes = Undefined
  /\ rep.i = 2
  /\ poffset = Len(input)
  /\ value["b"] # <<>>


----------------------------------------------------------------------------
\* Properties of the parser's primitive reads (checked under ReadSpec)

\* C13: a read whose function branches on the value read, issues nested reads and
\* returns the parser merges nothing of its own: the record afterwards is the
\* record before with exactly the keys of the nested reads set (type 0: none;
\* type 1: "a" from the next two bytes; type 3: "a" and "b" from the next two
\* bytes), the discriminator is stored nowhere, and the cursor is just past the
\* discriminator and the bytes of the nested reads.
C13_BranchingRead ==
  [][ (pcall'.op = "branch" /\ perr' = None) =>
        LET t == input[poffset + 1]
        IN  /\ t \in {0, 1, 3}
            /\ t = 0 => (poffset' = poffset + 1 /\ value' = value)
            /\ t = 1 =>
                 /\ poffset' = poffset + 3
                 /\ value' = [value EXCEPT !["a"] =
                      <<Datum("number",
                              BytesNumber(SubSeq(input, poffset + 2, poffset + 3), pendian))>>]
            /\ t = 3 =>
                 /\ poffset' = poffset + 3
                 /\ value' = [value EXCEPT
                      !["a"] = <<Datum("number", N(input[poffset + 2]))>>,
                      !["b"] = <<Datum("number", N(input[poffset + 3]))>>]
    ]_vars

C13_Witness ==
  /\ pcall.op = "branch"
  /\ perr = None
  /\ input[1] = 3
  /\ poffset = 3
  /\ value["a"] = <<Datum("number", N(input[2]))>>
  /\ value["b"] = <<Datum("number", N(input[3]))>>

\* C14: a number read given a property name, or a function returning a mapping,
\* sets exactly the keys named to the decoded value, whatever they held before,
\* and leaves every other key of the record, those of the target included, as
\* it was.
C14_MergeOverwrites ==
  [][ (pcall'.op = "number" /\ perr' = None
         /\ pcall'.reader.kind \in {"name", "function"}) =>
        /\ \A k \in FieldNames :
             value'[k] = IF k \in pcall'.reader.keys THEN <<pcall'.data>> ELSE value[k]
        /\ pcall'.count = Undefined =>
             pcall'.data =
               Datum("number",
                     BytesNumber(SubSeq(input, poffset + 1, poffset + (pcall'.bits \div 8)),
                                 pendian))
    ]_vars

C14_Witness ==
  /\ pcall.op = "number"
  /\ perr = None
  /\ pcall.reader = [kind |-> "name", keys |-> {"a"}]
  /\ pcall.data[1] = "number"
  /\ value["a"] = <<pcall.data>>
  /\ value["b"] = <<Datum("target", <<>>)>>
  /\ poffset = 3

\* C15: a number read whose function returns nothing consumes the bytes of the
\* field and leaves the record exactly as it was.
C15_VoidReader ==
  [][ (pcall'.op = "number" /\ perr' = None /\ pcall'.reader.kind = "void") =>
        /\ value' = value
        /\ poffset' = poffset + (pcall'.bits \div 8)
                        * (IF pcall'.count = Undefined THEN 1 ELSE pcall'.count)
    ]_vars

C15_Witness ==
  /\ pcall.op = "number"
  /\ perr = None
  /\ pcall.reader.kind = "void"
  /\ pcall.count = Undefined
  /\ poffset = Len(input)
  /\ poffset > 0
  /\ value \in Targets

\* C16: a number read given a count c reads c consecutive values of the width,
\* advances the cursor by c * bits / 8, and passes them to the reader as one
\* sequence in read order, also for c = 0 and c = 1; under a property name the
\* sequence is what the record holds.
C16_CountPrefixedRead ==
  [][ (pcall'.op = "number" /\ perr' = None /\ pcall'.count # Undefined) =>
        LET c == pcall'.count
            w == pcall'.bits \div 8
        IN  /\ poffset' = poffset + c * w
            /\ pcall'.data[1] = "array"
            /\ Len(pcall'.data[2]) = c
            /\ \A i \in 1..c :
                 pcall'.data[2][i] =
                   BytesNumber(SubSeq(input, poffset + (i - 1) * w + 1, poffset + i * w),
                               pendian)
            /\ pcall'.reader.kind = "name" =>
                 \A k \in pcall'.reader.keys : value'[k] = <<pcall'.data>>
    ]_vars

C16_Witness ==
  /\ pcall.op = "number"
  /\ perr = None
  /\ pcall.count = 2
  /\ pcall.bits = 8
  /\ pcall.reader = [kind |-> "name", keys |-> {"b"}]
  /\ poffset = 3
  /\ value["b"] = <<Datum("array", <<N(input[2]), N(input[3])>>)>>

\* C34 (as stated): repeat absorbs a failure raised inside the sequence only when
\* neither times nor minTimes is given; whenever times or minTimes is given, the
\* failure reaches the caller of repeat.
C34_AbsorbedOnlyWithoutConditions ==
  rep.last = "throw" =>
    IF rep.times = Undefined /\ rep.minTimes = Undefined
    THEN rep.pc = "done" /\ perr = None
    ELSE rep.pc = "failed" /\ perr # None

\* C34 (amended): repeat absorbs a failure raised inside the sequence exactly when
\* times is not given and minTimes is either not given or already reached by
\* the completed iterations; in every other case repeat fails with a
\* repeat-condition error.
C34_AbsorbedUnlessConditionUnmet ==
  rep.last = "throw" =>
    IF rep.times = Undefined /\ (rep.minTimes = Undefined \/ rep.i >= rep.minTimes)
    THEN rep.pc = "done" /\ perr = None
    ELSE rep.pc = "failed" /\ perr = "RepeatConditionError"

C34_Witness ==
  /\ rep.last = "throw"
  /\ rep.pc = "done" /\ perr = None
  /\ rep.times = Undefined
  /\ rep.minTimes = 1 /\ rep.i = 1
  /\ rep.calls = 2

\* C35: a sequence that consumes at least one byte whenever it returns the parser is
\* invoked at most (bytes remaining at entry + 1) times by one repeat: while the
\* loop runs, every invocation made so far has consumed a byte of the input
\* after the entry cursor, and the loop has ended (by bound, stop signal,
\* absorbed failure or repeat-condition error) by the time the invocations
\* number the bytes remaining at entry plus one.
C35_InvocationsBounded ==
  /\ rep.calls <= (Len(input) - rep.entry) + 1
  /\ rep.pc = "loop" => rep.calls <= poffset - rep.entry
  /\ rep.calls = (Len(input) - rep.entry) + 1 => rep.pc \in {"done", "failed"}

C35_Witness ==
  /\ rep.pc = "done"
  /\ rep.entry = 0
  /\ Len(input) = 4 /\ poffset = 4
  /\ rep.calls = 3
  /\ rep.last = "throw"

\* C36: when repeat absorbs a failure the failing iteration is not rolled back: the
\* cursor stays where the iteration's last successful read left it (at entry of
\* the iteration when the type byte could not be read, else past the type
\* byte, and past the first field of a type-3 record whose second field is
\* missing), and a field merged by a read of that iteration before the
\* failing one stays in the record, replacing what the key held.
C36_NoRollback ==
  [][ (rep.pc = "loop" /\ rep'.calls = rep.calls + 1 /\ rep'.last = "throw"
         /\ rep'.pc = "done") =>
        LET rem == Len(input) - poffset
        IN  /\ perr' = None
            /\ IF rem = 0 THEN poffset' = poffset /\ value' = value
               ELSE IF input[poffset + 1] = 3 /\ rem >= 2
                 THEN /\ rem = 2
                      /\ poffset' = poffset + 2
                      /\ value' = [value EXCEPT
                           !["a"] = <<N(input[poffset + 2])>>]
               ELSE poffset' = poffset + 1 /\ value' = value
    ]_vars

C36_Witness ==
  /\ rep.pc = "done" /\ perr = None
  /\ rep.last = "throw"
  /\ rep.entry = 0 /\ rep.i = 1 /\ rep.calls = 2
  /\ Len(input) = 4 /\ input[1] = 2 /\ input[3] = 3
  /\ poffset = 4
  /\ value["b"] = <<N(input[2])>>
  /\ value["a"] = <<N(input[4])>>

\* C37: an exception thrown by the caller's own function inside the sequence (here
\* on a type byte it does not know) is handled like a failed read: the
\* iteration is not counted, repeat ends successfully when no times / minTimes
\* requirement is unmet and fails with a repeat-condition error otherwise, and
\* no other error ever comes out of repeat.
C37_AnyExceptionIsAFailure ==
  [][ (rep.pc = "loop" /\ rep'.calls = rep.calls + 1) =>
        /\ perr' \in {None, "RepeatConditionError"}
        /\ (poffset < Len(input) /\ input[poffset + 1] \notin {0, 1, 2, 3}) =>
             /\ rep'.last = "throw"
             /\ rep'.i = rep.i
             /\ poffset' = poffset + 1
             /\ value' = value
             /\ IF \/ rep.times # Undefined
                   \/ rep.minTimes # Undefined /\ rep.i < rep.minTimes
                THEN rep'.pc = "failed" /\ perr' = "RepeatConditionError"
                ELSE rep'.pc = "done" /\ perr' = None
    ]_vars

C37_Witness ==
  /\ rep.pc = "done" /\ perr = None
  /\ rep.last = "throw"
  /\ rep.entry = 0 /\ rep.i = 1 /\ rep.calls = 2
  /\ rep.minTimes = 1
  /\ Len(input) = 4 /\ input[1] = 2 /\ input[3] = 4
  /\ poffset = 3
  /\ value["b"] = <<N(input[2])>>

----------------------------------------------------------------------------
\* Properties of the parser's string read (checked under StringSpec)

\* C20: a string read with a length prefix of width w, where the prefix can be read
\* and holds a length L (0 included) that fits the input after it, succeeds,
\* returns the L bytes after the prefix as the text, and advances the cursor by
\* exactly w / 8 + L.
C20_LengthPrefixedString ==
  [][ (pcall'.op = "string" /\ pcall'.bits # 0
         /\ poffset + (pcall'.bits \div 8) <= Len(input)) =>
        LET w == pcall'.bits \div 8
            L == BytesNumber(SubSeq(input, poffset + 1, poffset + w), pendian)
        IN  (L.hi = 0 /\ poffset + w + L.lo <= Len(input)) =>
              /\ perr' = None
              /\ poffset' = poffset + w + L.lo
              /\ pcall'.data =
                   Datum("string", SubSeq(input, poffset + w + 1, poffset + w + L.lo))
    ]_vars

\* C21: a null-terminated string read (no length prefix) returns the bytes from the
\* cursor up to, not including, the first zero byte and leaves the cursor just
\* past that zero byte; with no zero byte between the cursor and the end of the
\* input it fails with OutOfData, the cursor and the record as they were.
C21_NullTerminatedRead ==
  [][ (pcall'.op = "string" /\ pcall'.bits = 0 /\ pcall'.nullTerminate) =>
        LET zeros == {i \in (poffset + 1)..Len(input) : input[i] = 0}
        IN  IF zeros = {}
            THEN perr' = "OutOfData" /\ poffset' = poffset /\ value' = value
            ELSE LET z == CHOOSE i \in zeros : \A j \in zeros : i <= j
                 IN  /\ perr' = None
                     /\ poffset' = z
                     /\ pcall'.data = Datum("string", SubSeq(input, poffset + 1, z - 1))
    ]_vars

C21_Witness ==
  /\ pcall.op = "string"
  /\ pcall.bits = 0
  /\ pcall.nullTerminate
  /\ perr = None
  /\ input = <<0, 2, 0>>
  /\ poffset = 3
  /\ pcall.data = Datum("string", <<2>>)

\* C30: a string read with lengthBits 0 and without nullTerminate fails with a
\* configuration error before it consumes a byte, the cursor and the record as
\* they were; a string read with nullTerminate and lengthBits left out reads no
\* length prefix: its text starts at the cursor and ends before the first zero
\* byte, and without a zero byte it fails with the cursor where it was.
C30_StringReadStrategy ==
  [][ (pcall'.op = "string") =>
        /\ (pcall'.lengthBits = 0 /\ ~pcall'.nullTerminate) =>
              (perr' = "ConfigError" /\ poffset' = poffset /\ value' = value)
        /\ (pcall'.lengthBits = Default /\ pcall'.nullTerminate) =>
              LET zeros == {i \in (poffset + 1)..Len(input) : input[i] = 0}
              IN  IF zeros = {} THEN perr' # None /\ poffset' = poffset
                  ELSE /\ perr' = None
                       /\ poffset' \in zeros
                       /\ \A i \in zeros : poffset' <= i
                       /\ pcall'.data =
                            Datum("string", SubSeq(input, poffset + 1, poffset' - 1))
    ]_vars

C30_Witness ==
  /\ pcall.op = "string"
  /\ pcall.lengthBits = 0
  /\ ~pcall.nullTerminate
  /\ perr = "ConfigError"
  /\ input = <<1, 2, 0>>
  /\ poffset = 2
  /\ value["a"] = <<Datum("string", <<2>>)>>

----------------------------------------------------------------------------
\* Properties of a round trip (checked under RoundTripSpec)

\* C17: a text written with a length prefix of 8, 16 or 32 bits, the empty text and
\* texts outside ASCII included, and read back with the same lengthBits and byte
\* order, is read without error as the same text, with the cursor at the end of
\* the input.
C17_StringRoundTrip ==
  /\ (op = "string" /\ sent.kind = "string") => err = None
  /\ (pop = "string" /\ sent.kind = "string") =>
       /\ perr = None
       /\ value["a"] = <<Datum("string", sent.x)>>
       /\ poffset = Len(input)

\* C18: a value v with 0 <= v <= 2^bits - 1, 2^32 - 1 included, is accepted by the
\* builder's number(bits, v), and the parser's number(bits) reads the built
\* output in the same byte order as exactly v, not negative, with the cursor at
\* the end of the input.
C18_NumberRoundTrip ==
  /\ (op = "number" /\ sent.kind = "number"
        /\ (sent.bits = 32 \/ sent.x.hi = 0)
        /\ (sent.bits = 8 => sent.x.lo <= 255)) => err = None
  /\ (pop = "number" /\ sent.kind = "number") =>
       /\ perr = None
       /\ value["a"] = <<Datum("number", sent.x)>>
       /\ value["a"][1][2].hi >= 0
       /\ poffset = Len(input)
       /\ Len(input) = sent.bits \div 8

C18_Witness ==
  /\ pop = "number"
  /\ perr = None
  /\ pendian = LITTLE
  /\ sent.bits = 32
  /\ sent.x = [hi |-> 65535, lo |-> 65535]
  /\ input = <<255, 255, 255, 255>>
  /\ value["a"] = <<Datum("number", [hi |-> 65535, lo |-> 65535])>>

\* C19: a byte sequence b, the empty one included, written with hex (as bytes or as
\* hex text in either case of letters) and read back with hex under the same
\* non-zero lengthBits, or with lengthBits 0 on both sides and length = |b| on
\* the parser's, is read without error as the lowercase hex text of b, with the
\* cursor at the end of the input.
C19_HexRoundTrip ==
  /\ (op = "hex" /\ sent.kind = "hex") => err = None
  /\ (pop = "hex" /\ sent.kind = "hex") =>
       /\ perr = None
       /\ value["a"] = <<Datum("hex", toHex(sent.x))>>
       /\ poffset = Len(input)

C19_Witness ==
  /\ pop = "hex"
  /\ perr = None
  /\ sent.bits = 0
  /\ sent.x = <<171, 205, 239>>
  /\ value["a"] = <<Datum("hex", <<"a", "b", "c", "d", "e", "f">>)>>
  /\ poffset = 3

\* C25: a 16- or 32-bit number is written and read most significant byte first by
\* a big-endian instance and least significant byte first by a little-endian
\* one; the length prefix of a string follows the same order; the byte order of
\* a builder and of a parser does not change after construction.
C25_ByteOrder ==
  [][ LET \* the bytes of the number hi * 65536 + lo in w bytes, in the order e
          ordered(v, w, e) ==
            LET msb == IF w = 2 THEN <<v.lo \div 256, v.lo % 256>>
                       ELSE <<v.hi \div 256, v.hi % 256, v.lo \div 256, v.lo % 256>>
            IN  IF e = BIG THEN msb ELSE [i \in 1..w |-> msb[w + 1 - i]]
      IN  /\ endian' = endian
          /\ (pop # "new" => pendian' = pendian)
          /\ (op = "new" /\ op' = "number" /\ err' = None /\ sent'.bits \in {16, 32}) =>
                buf' = ordered(sent'.x, sent'.bits \div 8, endian)
          /\ (op = "new" /\ op' = "string" /\ err' = None /\ sent'.bits \in {16, 32}) =>
                LET w == sent'.bits \div 8
                IN  SubSeq(buf', 1, w) = ordered(N(Len(buf') - w), w, endian)
          /\ (pop = "parse" /\ pop' = "number" /\ perr' = None /\ sent.bits \in {16, 32}) =>
                /\ input = ordered(value'["a"][1][2], sent.bits \div 8, pendian)
                /\ value'["a"][1][2].hi >= 0
          /\ (pop = "parse" /\ pop' = "string" /\ perr' = None /\ sent.bits \in {16, 32}) =>
                LET w == sent.bits \div 8
                IN  SubSeq(input, 1, w) = ordered(N(poffset' - w), w, pendian)
    ]_vars

C25_Witness ==
  /\ pop = "number"
  /\ perr = None
  /\ endian = LITTLE
  /\ pendian = LITTLE
  /\ sent.bits = 32
  /\ sent.x = [hi |-> 258, lo |-> 772]
  /\ buf = <<4, 3, 2, 1>>
  /\ input = <<4, 3, 2, 1>>
  /\ value["a"] = <<Datum("number", [hi |-> 258, lo |-> 772])>>

----------------------------------------------------------------------------
\* Properties of chains of reads (checked under ChainSpec)

\* C22: a primitive read (a number, the elements of a count-prefixed read, a
\* string, a byte span) that needs more bytes than remain between the cursor and
\* the end of the input fails with OutOfData and merges nothing into the record.
C22_PastEndIsOutOfData ==
  [][ (pop' = pcall'.op /\ pcall'.op \in {"number", "string", "hex"}) =>
        LET c   == pcall'
            rem == Len(input) - poffset
            lb  == IF c.op # "hex" \/ c.bits # Default THEN c.bits
                   ELSE IF c.count # Undefined THEN 0 ELSE 8
            w   == lb \div 8
            L   == BytesNumber(SubSeq(input, poffset + 1, poffset + w), pendian)
            short ==
              IF c.op = "number"
                THEN (IF c.count = Undefined THEN 1 ELSE c.count) * (c.bits \div 8) > rem
              ELSE IF lb # 0 THEN w > rem \/ L.hi > 0 \/ w + L.lo > rem
              ELSE IF c.op = "string"
                THEN c.nullTerminate /\ \A i \in (poffset + 1)..Len(input) : input[i] # 0
              ELSE c.count # Undefined /\ c.count > rem
        IN  short => (perr' = "OutOfData" /\ value' = value)
    ]_vars

\* C23: over any sequence of reads, branching reads and repeat loops, failing ones
\* included, the read cursor never decreases and never exceeds the length of the
\* input, and the input bytes stay as they were.
C23_CursorAdvancesOnly ==
  [][ poffset' >= poffset /\ poffset' <= Len(input') /\ input' = input ]_vars

C23_Witness ==
  /\ pcall.op = "string"
  /\ pop = "repeat"
  /\ rep.pc = "done"
  /\ rep.last = "throw"
  /\ rep.calls = 1
  /\ Len(input) = 3
  /\ poffset = 2

----------------------------------------------------------------------------
\* Properties of chains of writes (checked under EncodeSpec)

\* C24: a number write of a value v with v < 0 or v > 2^bits - 1 fails with a range
\* error and writes nothing for that value: the buffer bytes, the cursor and the
\* logical length are as the values before it in the call left them, and as
\* they were before the call when it is the first value.
C24_RangeErrorWritesNothing ==
  [][ (op' = "number" /\ sent' # sent) =>
        LET c      == sent'[Len(sent')]
            maxv   == IF c.bits = 8 THEN N(255) ELSE IF c.bits = 16 THEN N(65535)
                      ELSE [hi |-> 65535, lo |-> 65535]
            bad(v) == Lt(v, N(0)) \/ Gt(v, maxv)
        IN  (\E i \in 1..Len(c.x) : bad(c.x[i])) =>
              LET k   == CHOOSE i \in 1..Len(c.x) :
                           bad(c.x[i]) /\ \A j \in 1..(i - 1) : ~bad(c.x[j])
                  pre == numberLoop(buf, offset, c.bits, SubSeq(c.x, 1, k - 1))
              IN  /\ err' = "RangeError"
                  /\ buf' = pre.buf
                  /\ offset' = pre.offset
                  /\ length' = Max(length, pre.offset)
                  /\ (k = 1 => (buf' = buf /\ offset' = offset /\ length' = length))
    ]_vars

C24_Witness ==
  /\ op = "number"
  /\ err = "RangeError"
  /\ Len(sent) = 2
  /\ sent[1].kind = "string"
  /\ sent[2] = [kind |-> "number", bits |-> 8, x |-> <<N(202), N(256)>>]
  /\ buf = <<1, 97, 202>>
  /\ offset = 3

\* C26: build() after a chain of writes without loadMark is the concatenation, in
\* call order, of what each field writes on its own, the cursor standing at its
\* end; and a read of the parser takes its bytes from the offset where the read
\* before it ended and leaves the cursor at the end of the bytes it took.
C26_Concatenation ==
  [][ /\ (op' = "build") =>
            /\ ret' = toHex(Encodings(sent'))
            /\ offset' = Len(Encodings(sent'))
      /\ (poffset' > poffset /\ perr' = None) =>
            LET c == pcall'
                w == IF c.op = "number" THEN c.bits \div 8
                     ELSE IF c.bits = Default THEN (IF c.count = Undefined THEN 1 ELSE 0)
                     ELSE c.bits \div 8
                taken == SubSeq(input, poffset + 1, poffset')
            IN  /\ c.op = "number" =>
                      IF c.count = Undefined
                      THEN /\ Len(taken) = w
                           /\ c.data = Datum("number", BytesNumber(taken, pendian))
                      ELSE /\ Len(taken) = c.count * w
                           /\ c.data = Datum("array",
                                  [k \in 1..c.count |->
                                     BytesNumber(SubSeq(taken, (k - 1) * w + 1, k * w), pendian)])
                /\ c.op = "hex" =>
                      c.data = Datum("hex", toHex(SubSeq(taken, w + 1, Len(taken))))
                /\ c.op = "string" =>
                      LET bytes == writeUTF8String(c.data[2])
                      IN  SubSeq(taken, w + 1, w + Len(bytes)) = bytes
    ]_vars

C26_Witness ==
  /\ endian = BIG
  /\ sent = << [kind |-> "number", bits |-> 16, x |-> <<N(202), N(256)>>],
               [kind |-> "string", bits |-> 8, x |-> <<97, 98>>, lengthBits |-> Default,
                min |-> 0, max |-> Default, nullTerminate |-> FALSE] >>
  /\ op = "build"
  /\ ret = toHex(<<0, 202, 1, 0, 2, 97, 98>>)
  /\ pop = "string"
  /\ perr = None
  /\ pcall.data = Datum("string", <<97, 98>>)
  /\ poffset = 7

\* C27: string with a length prefix (lengthBits 8, 16 or 32, 8 when left out, and
\* no null terminator) writes at the cursor the number of UTF-8 bytes of the
\* text, not of its characters, in lengthBits / 8 bytes in the byte order of the
\* builder, followed by exactly those bytes.
C27_LengthPrefixCountsBytes ==
  [][ (op' = "string" /\ sent' # sent /\ err' = None) =>
        LET c == sent'[Len(sent')]
            w == IF c.lengthBits = Default THEN 1 ELSE c.lengthBits \div 8
            utf8 == writeUTF8String(c.x)
            n == Len(utf8)
            msb == IF w = 1 THEN <<n>> ELSE <<n \div 256, n % 256>>
            prefix == IF endian = BIG THEN msb ELSE [i \in 1..w |-> msb[w + 1 - i]]
        IN  (c.lengthBits # 0 /\ ~c.nullTerminate) =>
              /\ offset' = offset + w + n
              /\ SubSeq(buf', offset + 1, offset') = prefix \o utf8
    ]_vars

C27_Witness ==
  /\ op = "string"
  /\ err = None
  /\ endian = LITTLE
  /\ Len(sent) = 2
  /\ sent[1].kind = "hex"
  /\ sent[2].kind = "string"
  /\ sent[2].x = <<233>>
  /\ sent[2].lengthBits = 16
  /\ ~sent[2].nullTerminate
  /\ buf = <<171, 205, 2, 0, 195, 169>>
  /\ offset = 6

\* C28: string, given bounds with 0 <= minLength <= maxLength <= 2^lengthBits - 1,
\* fails with a length error exactly when the number of UTF-8 bytes of the text
\* is below minLength or above maxLength, and that failure leaves the buffer,
\* the cursor and the logical length as they were. (maxLength left out is
\* 2^lengthBits - 1, which no text written here exceeds.)
C28_LengthErrorIffOutOfBounds ==
  [][ (op' = "string" /\ sent' # sent) =>
        LET c == sent'[Len(sent')]
            n == Len(writeUTF8String(c.x))
            boundsOk == c.min >= 0 /\ (c.max = Default
                                         \/ (c.max >= c.min /\ (c.bits # 8 \/ c.max <= 255)))
            out == n < c.min \/ (c.max # Default /\ n > c.max)
        IN  boundsOk =>
              /\ (err' = "LengthError") <=> out
              /\ (err' = "LengthError") => (buf' = buf /\ offset' = offset /\ length' = length)
    ]_vars

\* C29: string fails with a configuration error and writes nothing unless exactly
\* one length strategy is active: it fails with lengthBits 0 and nullTerminate
\* false (neither) and with lengthBits not 0 and nullTerminate true (both).
C29_OneLengthStrategy ==
  [][ (op' = "string" /\ sent' # sent) =>
        LET c == sent'[Len(sent')]
        IN  ((c.bits = 0) <=> ~c.nullTerminate) =>
              /\ err' = "ConfigError"
              /\ buf' = buf
              /\ offset' = offset
              /\ length' = length
    ]_vars

\* C31: hex holds the byte length of its data against [minLength, maxLength] with
\* and without a length prefix: a length outside the bounds fails with a length
\* error and writes nothing, and with lengthBits 0 a length within them writes
\* the data bytes alone, with no length before them. (maxLength left out is
\* 2^lengthBits - 1, which no data written here exceeds.)
C31_HexLengthChecked ==
  [][ (op' = "hex" /\ sent' # sent) =>
        LET c == sent'[Len(sent')]
            n == IF c.isText THEN Len(c.data) \div 2 ELSE Len(c.data)
            out == n < c.min \/ (c.max # Default /\ n > c.max)
        IN  (err' # "InvalidHexError") =>
              /\ out => /\ err' = "LengthError"
                        /\ buf' = buf /\ offset' = offset /\ length' = length
              /\ ~out => err' = None
              /\ (~out /\ c.bits = 0) =>
                    /\ offset' = offset + n
                    /\ SubSeq(buf', offset + 1, offset') = c.x
                    /\ SubSeq(buf', 1, offset) = SubSeq(buf, 1, offset)
    ]_vars

C31_Witness ==
  /\ op = "hex"
  /\ err = "LengthError"
  /\ Len(sent) = 2
  /\ sent[1].kind = "number"
  /\ sent[2].kind = "hex"
  /\ sent[2].bits = 0
  /\ sent[2].data = <<"0", "0", "6", "1">>
  /\ sent[2].max = 1
  /\ offset = 2
  /\ buf = <<1, 0>>

\* C32: hex given text of odd length, or holding a character that is no hex digit,
\* fails with an invalid-hex error and leaves the buffer, the cursor, the
\* logical length and the marks as they were.
C32_InvalidHexRefused ==
  [][ (op' = "hex" /\ sent' # sent) =>
        LET c == sent'[Len(sent')]
            digits == {"0", "1", "2", "3", "4", "5", "6", "7", "8", "9",
                       "a", "b", "c", "d", "e", "f", "A", "B", "C", "D", "E", "F"}
            bad == c.isText /\ (Len(c.data) % 2 = 1
                                  \/ \E i \in 1..Len(c.data) : c.data[i] \notin digits)
        IN  /\ bad => /\ err' = "InvalidHexError"
                      /\ buf' = buf /\ offset' = offset /\ length' = length
                      /\ marks' = marks
            /\ (err' = "InvalidHexError") => bad
    ]_vars

C32_Witness ==
  /\ op = "hex"
  /\ err = "InvalidHexError"
  /\ Len(sent) = 2
  /\ sent[1].kind = "string"
  /\ sent[2].data = <<"6">>
  /\ offset = 3
  /\ buf = <<2, 97, 98>>

\* C39: a number write of several values whose k-th value is the first out of range
\* fails with a range error after writing values 1..k-1: their bytes stand in
\* the buffer from the cursor of entry on, what was before them is as it was,
\* and the cursor and the logical length have advanced past them, so for
\* k > 1 the failed call has changed the builder.
C39_PartialNumberWrite ==
  [][ (op' = "number" /\ sent' # sent) =>
        LET c      == sent'[Len(sent')]
            w      == c.bits \div 8
            maxv   == IF c.bits = 8 THEN N(255) ELSE IF c.bits = 16 THEN N(65535)
                      ELSE [hi |-> 65535, lo |-> 65535]
            bad(v) == Lt(v, N(0)) \/ Gt(v, maxv)
        IN  (\E i \in 1..Len(c.x) : bad(c.x[i])) =>
              LET k    == CHOOSE i \in 1..Len(c.x) :
                            bad(c.x[i]) /\ \A j \in 1..(i - 1) : ~bad(c.x[j])
                  done == NumbersBytes(c.bits, SubSeq(c.x, 1, k - 1))
              IN  /\ err' = "RangeError"
                  /\ Len(done) = (k - 1) * w
                  /\ offset' = offset + (k - 1) * w
                  /\ Len(buf') >= offset'
                  /\ SubSeq(buf', 1, offset) = SubSeq(buf, 1, offset)
                  /\ SubSeq(buf', offset + 1, offset') = done
                  /\ length' = Max(length, offset')
                  /\ k > 1 => (offset' > offset /\ buf' # buf /\ length' > length)
    ]_vars

C39_Witness ==
  /\ op = "number"
  /\ err = "RangeError"
  /\ endian = LITTLE
  /\ Len(sent) = 1
  /\ sent[1] = [kind |-> "number", bits |-> 16, x |-> <<N(256), [hi |-> 1, lo |-> 0]>>]
  /\ buf = <<0, 1>>
  /\ offset = 2
  /\ length = 2

----------------------------------------------------------------------------
\* Properties of a builder constructed with a limit (checked under LimitSpec)

\* C33: on a builder constructed with a limit the logical length never exceeds the
\* limit, and remaining(), the limit minus the logical length, is never negative.
C33_LengthWithinLimit ==
  /\ length <= limit
  /\ (op = "remaining") => ret >= 0

====
